---- MODULE Spec2Model ----
(***************************************************************************)
(* DocsDrafter: the template rendering engine (utils/templateRenderer,     *)
(* src/unnamed/part_016) and the document generator hook                   *)
(* (src/hooks/useDocumentGenerator.ts).                                    *)
(*                                                                         *)
(* JavaScript strings are TLA+ strings (sequences of characters): Len,     *)
(* SubSeq and \o act on them character by character.  JavaScript values    *)
(* are tagged records:                                                     *)
(*    [t |-> "str", s]   [t |-> "num", n]   [t |-> "bool", b]              *)
(*    [t |-> "null"]     [t |-> "undef"]                                   *)
(*    [t |-> "arr", e]   an array literal (a fresh array nobody else       *)
(*                       references), e the sequence of its elements       *)
(*    [t |-> "obj", k, v] an object literal, k its own keys in insertion   *)
(*                       order and v the values at the same indices        *)
(*    [t |-> "ref", a]   a reference to the container stored at address a  *)
(*                       of a heap: containers with an identity, which may *)
(*                       be shared or cyclic                               *)
(* Numbers are integers; object keys that look like array indices are not  *)
(* reordered.                                                              *)
(***************************************************************************)
EXTENDS Integers, Sequences, FiniteSets, TLC

VARIABLES
    nHeap,      \* normalizer run: the heap the input lives in
    nInput,     \* normalizer run: the value handed to normalizeDataForRendering
    nPc,        \* normalizer run: "start", "once", "twice", "viaJson"
    nOut,       \* normalizer run: result of the last call
    nPrev,      \* normalizer run: result of the first call (kept for the second)
    pData,      \* path resolver run: the data object
    pPath,      \* path resolver run: the path
    pPc,        \* path resolver run: "start", "renderer", "hook"
    pOut,       \* path resolver run: the value returned
    sSchema,    \* schema compiler run: the JSON schema
    sPc,        \* schema compiler run: "start", "compiled"
    sOut,       \* schema compiler run: the TemplateConfig returned
    rConfig,    \* renderer run: the TemplateConfig
    rData,      \* renderer run: the data object
    rPc,        \* renderer run: "start", "rendered"
    rOut,       \* renderer run: the HTML returned
    gPc,        \* generate: where each call is
    gIn,        \* generate: the arguments of each call
    gHtml,      \* generate: the HTML each call handed to the emitter
    gErr,       \* generate: the error each call caught
    gBase64,    \* generate: whether each call's emitter returned base64 data
    loading,    \* the hook's loading state
    error,      \* the hook's error state
    bucket,     \* storage paths held by the documents bucket
    dbRows,     \* storage paths of the rows of the documents table
    shared,     \* calls whose file was handed to the share sheet
    dValue,     \* display run: the value to show
    dPc,        \* display run: "start", "shown"
    dOut,       \* display run: the text returned
    cHtml,      \* converter run: the HTML given
    cRemaining, \* converter run: remaining
    cChildren,  \* converter run: children
    cIter,      \* converter run: iterations
    cPc,        \* converter run: "loop", "done"
    cBranch,    \* converter run: the branch the last pass through the loop took
    xHtml,      \* createDocx: the html argument
    xName,      \* createDocx: the fileName argument
    xSanitized, \* createDocx: sanitizedHtml
    xConv,      \* createDocx: how the conversion ended: "none", "ok", "threw"
    xNodes,     \* createDocx: the children of the section given to the packager
    xPc,        \* createDocx: where the call is
    xOut,       \* createDocx: what the caller received
    pdfHtml,      \* createPdf: the html argument
    pdfName,      \* createPdf: the fileName argument
    pdfFiles,     \* createPdf: the files that exist, by uri
    pdfPrint,     \* createPdf: how printToFileAsync ended: "none", "ok", "failed"
    pdfMove,      \* createPdf: how moveAsync ended: "none", "ok", "failed"
    pdfPc,        \* createPdf: where the call is
    pdfOut,       \* createPdf: what the caller received
    hPc,        \* handleFormSubmit: where the handler run for each call is
    hCaptured,  \* handleFormSubmit: generationError as the handler of each run closed over it
    alerts,     \* handleFormSubmit: the alerts shown, each with the run that showed it
    tValue,     \* render then convert: the data value v
    tKind,      \* render then convert: what is bound to v: "paragraph", "cell"
    tHtml,      \* render then convert: the HTML rendered
    tNodes,     \* render then convert: the nodes converted from the HTML
    tPc         \* render then convert: "start", "rendered", "converted"

normVars == <<nHeap, nInput, nPc, nOut, nPrev>>
pathVars == <<pData, pPath, pPc, pOut>>
schemaVars == <<sSchema, sPc, sOut>>
renderVars == <<rConfig, rData, rPc, rOut>>
genVars == <<gPc, gIn, gHtml, gErr, gBase64, loading, error, bucket, dbRows, shared>>
displayVars == <<dValue, dPc, dOut>>
convVars == <<cHtml, cRemaining, cChildren, cIter, cPc, cBranch>>
docxVars == <<xHtml, xName, xSanitized, xConv, xNodes, xPc, xOut>>
pdfVars == <<pdfHtml, pdfName, pdfFiles, pdfPrint, pdfMove, pdfPc, pdfOut>>
screenVars == <<hPc, hCaptured, alerts>>
tripVars == <<tValue, tKind, tHtml, tNodes, tPc>>
vars == <<normVars, pathVars, schemaVars, renderVars, genVars, displayVars, convVars, docxVars, pdfVars, screenVars, tripVars>>

\* ------------------------------------------------------------------ bounds

\* Frames the JavaScript call stack holds before a RangeError is thrown.
MaxStack == 12

\* Depth to which two values are unfolded when they are compared for deep
\* equality (references followed into the heap).
UnfoldDepth == 6

\* ------------------------------------------------------------------ strings

Ch(s, i) == IF 1 <= i /\ i <= Len(s) THEN SubSeq(s, i, i) ELSE ""

From(s, i) == SubSeq(s, i, Len(s))

StartsWithAt(s, p, i) == i + Len(p) - 1 <= Len(s) /\ SubSeq(s, i, i + Len(p) - 1) = p

IsWs(c) == c \in {" ", "\n", "\t", "\r"}

IsDigit(c) == c \in {"0", "1", "2", "3", "4", "5", "6", "7", "8", "9"}

DigitVal(c) == CHOOSE d \in 0..9 : Ch("0123456789", d + 1) = c

RECURSIVE NatToStr(_)
NatToStr(n) ==
    IF n < 10 THEN Ch("0123456789", n + 1)
    ELSE NatToStr(n \div 10) \o Ch("0123456789", (n % 10) + 1)

\* String(n) for an integer n
NumToStr(n) == IF n < 0 THEN "-" \o NatToStr(0 - n) ELSE NatToStr(n)

RECURSIVE skipWs(_, _)
skipWs(s, i) == IF i <= Len(s) /\ IsWs(Ch(s, i)) THEN skipWs(s, i + 1) ELSE i

RECURSIVE skipWsBack(_, _)
skipWsBack(s, i) == IF i >= 1 /\ IsWs(Ch(s, i)) THEN skipWsBack(s, i - 1) ELSE i

\* String.prototype.trim
Trim(s) ==
    LET a == skipWs(s, 1)
        b == skipWsBack(s, Len(s))
    IN  IF a > b THEN "" ELSE SubSeq(s, a, b)

RECURSIVE Join(_, _)
Join(strs, sep) ==
    IF Len(strs) = 0 THEN ""
    ELSE IF Len(strs) = 1 THEN strs[1]
    ELSE strs[1] \o sep \o Join(Tail(strs), sep)

\* ------------------------------------------------------------------ values

Str(s) == [t |-> "str", s |-> s]
Num(n) == [t |-> "num", n |-> n]
Bool(b) == [t |-> "bool", b |-> b]
Null == [t |-> "null"]
Undef == [t |-> "undef"]
Arr(e) == [t |-> "arr", e |-> e]
Obj(k, v) == [t |-> "obj", k |-> k, v |-> v]
Ref(a) == [t |-> "ref", a |-> a]

\* The container a value denotes: a literal is its own container, a
\* reference is looked up in the heap.
Deref(h, x) == IF x.t = "ref" THEN h[x.a] ELSE x

IsNullish(x) == x.t \in {"null", "undef"}

\* Array.isArray
IsArray(h, x) == x.t \in {"arr", "ref"} /\ Deref(h, x).t = "arr"

\* typeof x === 'object' && x !== null && !Array.isArray(x)
IsObject(h, x) == x.t \in {"obj", "ref"} /\ Deref(h, x).t = "obj"

IndexOfKey(keys, key) ==
    IF \E i \in 1..Len(keys) : keys[i] = key
    THEN CHOOSE i \in 1..Len(keys) : keys[i] = key
    ELSE 0

\* o[key] = val on an object literal
ObjSet(o, key, val) ==
    LET i == IndexOfKey(o.k, key)
    IN  IF i = 0 THEN Obj(Append(o.k, key), Append(o.v, val))
        ELSE Obj(o.k, [o.v EXCEPT ![i] = val])

\* JavaScript truthiness
Truthy(h, x) ==
    CASE x.t = "str" -> x.s # ""
      [] x.t = "num" -> x.n # 0
      [] x.t = "bool" -> x.b
      [] x.t \in {"null", "undef"} -> FALSE
      [] OTHER -> TRUE

\* ------------------------------------------------------------------ JSON.parse

ParseFail == [ok |-> FALSE, val |-> Undef, pos |-> 0]
ParseOk(v, p) == [ok |-> TRUE, val |-> v, pos |-> p]

RECURSIVE parseStringFrom(_, _, _)
parseStringFrom(s, j, acc) ==
    LET c == Ch(s, j)
        e == Ch(s, j + 1)
    IN  IF j > Len(s) THEN ParseFail
        ELSE IF c = "\"" THEN ParseOk(Str(acc), j + 1)
        ELSE IF c = "\\" THEN
            IF e \in {"\"", "\\", "/"} THEN parseStringFrom(s, j + 2, acc \o e)
            ELSE IF e = "n" THEN parseStringFrom(s, j + 2, acc \o "\n")
            ELSE IF e = "t" THEN parseStringFrom(s, j + 2, acc \o "\t")
            ELSE IF e = "r" THEN parseStringFrom(s, j + 2, acc \o "\r")
            ELSE ParseFail
        ELSE IF c \in {"\n", "\t", "\r"} THEN ParseFail
        ELSE parseStringFrom(s, j + 1, acc \o c)

RECURSIVE parseDigits(_, _, _)
parseDigits(s, j, acc) ==
    IF IsDigit(Ch(s, j)) THEN parseDigits(s, j + 1, 10 * acc + DigitVal(Ch(s, j)))
    ELSE [n |-> acc, pos |-> j]

parseNumber(s, i) ==
    LET neg == Ch(s, i) = "-"
        j == IF neg THEN i + 1 ELSE i
        d == parseDigits(s, j, 0)
    IN  IF ~IsDigit(Ch(s, j)) THEN ParseFail
        ELSE IF Ch(s, j) = "0" /\ d.pos > j + 1 THEN ParseFail
        ELSE IF Ch(s, d.pos) \in {".", "e", "E"} THEN ParseFail
        ELSE ParseOk(Num(IF neg THEN 0 - d.n ELSE d.n), d.pos)

RECURSIVE parseValue(_, _)
RECURSIVE parseElements(_, _, _)
RECURSIVE parseMembers(_, _, _)

parseValue(s, i) ==
    LET j == skipWs(s, i)
        c == Ch(s, j)
        k == skipWs(s, j + 1)
    IN  IF c = "[" THEN
            IF Ch(s, k) = "]" THEN ParseOk(Arr(<<>>), k + 1)
            ELSE parseElements(s, k, <<>>)
        ELSE IF c = "{" THEN
            IF Ch(s, k) = "}" THEN ParseOk(Obj(<<>>, <<>>), k + 1)
            ELSE parseMembers(s, k, Obj(<<>>, <<>>))
        ELSE IF c = "\"" THEN parseStringFrom(s, j + 1, "")
        ELSE IF c = "-" \/ IsDigit(c) THEN parseNumber(s, j)
        ELSE IF StartsWithAt(s, "true", j) THEN ParseOk(Bool(TRUE), j + 4)
        ELSE IF StartsWithAt(s, "false", j) THEN ParseOk(Bool(FALSE), j + 5)
        ELSE IF StartsWithAt(s, "null", j) THEN ParseOk(Null, j + 4)
        ELSE ParseFail

parseElements(s, j, acc) ==
    LET r == parseValue(s, j)
        k == skipWs(s, r.pos)
    IN  IF ~r.ok THEN ParseFail
        ELSE IF Ch(s, k) = "," THEN parseElements(s, k + 1, Append(acc, r.val))
        ELSE IF Ch(s, k) = "]" THEN ParseOk(Arr(Append(acc, r.val)), k + 1)
        ELSE ParseFail

parseMembers(s, j, acc) ==
    LET j0 == skipWs(s, j)
        key == IF Ch(s, j0) = "\"" THEN parseStringFrom(s, j0 + 1, "") ELSE ParseFail
        c == skipWs(s, key.pos)
        r == parseValue(s, c + 1)
        k == skipWs(s, r.pos)
    IN  IF ~key.ok \/ Ch(s, c) # ":" THEN ParseFail
        ELSE IF ~r.ok THEN ParseFail
        ELSE IF Ch(s, k) = "," THEN parseMembers(s, k + 1, ObjSet(acc, key.val.s, r.val))
        ELSE IF Ch(s, k) = "}" THEN ParseOk(ObjSet(acc, key.val.s, r.val), k + 1)
        ELSE ParseFail

\* JSON.parse(s): ok is FALSE where JSON.parse throws a SyntaxError
JsonParse(s) ==
    LET r == parseValue(s, 1)
    IN  IF r.ok /\ skipWs(s, r.pos) = Len(s) + 1 THEN r ELSE ParseFail

\* ------------------------------------------------------------------ JSON.stringify

RECURSIVE quoteChars(_)
quoteChars(s) ==
    IF Len(s) = 0 THEN ""
    ELSE LET c == Ch(s, 1)
             q == CASE c = "\"" -> "\\\""
                    [] c = "\\" -> "\\\\"
                    [] c = "\n" -> "\\n"
                    [] c = "\t" -> "\\t"
                    [] c = "\r" -> "\\r"
                    [] OTHER -> c
         IN  q \o quoteChars(From(s, 2))

JsonQuote(s) == "\"" \o quoteChars(s) \o "\""

\* Result of a stringify step: err (a TypeError for a circular structure),
\* u (the result is undefined) and the text s.
StrOk(s) == [err |-> FALSE, u |-> FALSE, s |-> s]
StrUndef == [err |-> FALSE, u |-> TRUE, s |-> ""]
StrErr == [err |-> TRUE, u |-> FALSE, s |-> ""]

RECURSIVE stringifyValue(_, _, _)
RECURSIVE stringifyElements(_, _, _, _, _)
RECURSIVE stringifyMembers(_, _, _, _, _, _)

\* stack: the addresses of the containers being serialized (the cycle check)
stringifyValue(h, x, stack) ==
    LET c == Deref(h, x)
        stack1 == IF x.t = "ref" THEN stack \cup {x.a} ELSE stack
    IN  CASE x.t = "str" -> StrOk(JsonQuote(x.s))
          [] x.t = "num" -> StrOk(NumToStr(x.n))
          [] x.t = "bool" -> StrOk(IF x.b THEN "true" ELSE "false")
          [] x.t = "null" -> StrOk("null")
          [] x.t = "undef" -> StrUndef
          [] x.t = "ref" /\ x.a \in stack -> StrErr
          [] OTHER ->
                IF c.t = "arr" THEN stringifyElements(h, c.e, 1, stack1, "")
                ELSE stringifyMembers(h, c.k, c.v, 1, stack1, "")

stringifyElements(h, e, i, stack, acc) ==
    LET r == stringifyValue(h, e[i], stack)
        piece == IF r.u THEN "null" ELSE r.s
        sep == IF i = 1 THEN "" ELSE ","
    IN  IF i > Len(e) THEN StrOk("[" \o acc \o "]")
        ELSE IF r.err THEN StrErr
        ELSE stringifyElements(h, e, i + 1, stack, acc \o sep \o piece)

stringifyMembers(h, k, v, i, stack, acc) ==
    LET r == stringifyValue(h, v[i], stack)
        sep == IF acc = "" THEN "" ELSE ","
    IN  IF i > Len(k) THEN StrOk("{" \o acc \o "}")
        ELSE IF r.err THEN StrErr
        ELSE IF r.u THEN stringifyMembers(h, k, v, i + 1, stack, acc)
        ELSE stringifyMembers(h, k, v, i + 1, stack,
                              acc \o sep \o JsonQuote(k[i]) \o ":" \o r.s)

\* JSON.stringify(x)
JsonStringify(h, x) == stringifyValue(h, x, {})

\* ------------------------------------------------------------------ normalizer

\* isPlainObject: a non-null, non-array object whose constructor is Object.
\* Objects here are object literals or JSON.parse results, whose constructor
\* is Object unless an own "constructor" property shadows it.
isPlainObject(h, x) ==
    IsObject(h, x) /\ IndexOfKey(Deref(h, x).k, "constructor") = 0

looksLikeJsonContainer(s) ==
    LET t == Trim(s)
    IN  \/ (Ch(t, 1) = "{" /\ Ch(t, Len(t)) = "}")
        \/ (Ch(t, 1) = "[" /\ Ch(t, Len(t)) = "]")

\* tryParseJson: the parsed value, undefined when JSON.parse throws
tryParseJson(s) == LET r == JsonParse(s) IN IF r.ok THEN r.val ELSE Undef

\* Result of a call: the value returned, the WeakSet `seen` as the call left
\* it, and err when the call ended by an exception (the RangeError of a
\* call stack that grew beyond MaxStack frames).
NormRet(v, seen) == [val |-> v, seen |-> seen, err |-> FALSE]
NormThrow(seen) == [val |-> Undef, seen |-> seen, err |-> TRUE]

RECURSIVE normalizeValue(_, _, _, _)
RECURSIVE normalizeItems(_, _, _, _, _, _)
RECURSIVE normalizeEntries(_, _, _, _, _, _, _)

\* normalizeDataForRendering(input, seen) at call depth `depth`.  seen holds
\* the addresses of the heap objects added to the WeakSet; an object literal
\* has no other reference to it, so adding it is not observable.
normalizeValue(h, input, seen, depth) ==
    LET parsed == tryParseJson(input.s)
        obj == Deref(h, input)
        seen1 == IF input.t = "ref" THEN seen \cup {input.a} ELSE seen
    IN  IF depth > MaxStack THEN NormThrow(seen)
        ELSE IF input.t = "str" THEN
            IF /\ looksLikeJsonContainer(input.s)
               /\ Truthy(h, parsed)
               /\ (IsArray(h, parsed) \/ isPlainObject(h, parsed))
            THEN normalizeValue(h, parsed, seen, depth + 1)
            ELSE NormRet(input, seen)
        ELSE IF IsArray(h, input) THEN
            normalizeItems(h, obj.e, 1, seen, depth, <<>>)
        ELSE IF isPlainObject(h, input) THEN
            IF input.t = "ref" /\ input.a \in seen THEN NormRet(input, seen)
            ELSE normalizeEntries(h, obj.k, obj.v, 1, seen1, depth, <<>>)
        ELSE NormRet(input, seen)

\* input.map((item) => normalizeDataForRendering(item, seen))
normalizeItems(h, e, i, seen, depth, acc) ==
    LET r == normalizeValue(h, e[i], seen, depth + 1)
    IN  IF i > Len(e) THEN NormRet(Arr(acc), seen)
        ELSE IF r.err THEN NormThrow(r.seen)
        ELSE normalizeItems(h, e, i + 1, r.seen, depth, Append(acc, r.val))

\* for (const [k, v] of Object.entries(obj)) out[k] = normalize(v, seen)
normalizeEntries(h, k, v, i, seen, depth, acc) ==
    LET r == normalizeValue(h, v[i], seen, depth + 1)
    IN  IF i > Len(k) THEN NormRet(Obj(k, acc), seen)
        ELSE IF r.err THEN NormThrow(r.seen)
        ELSE normalizeEntries(h, k, v, i + 1, r.seen, depth, Append(acc, r.val))

\* normalizeDataForRendering(input): seen defaults to a new WeakSet
normalizeDataForRendering(h, input) == normalizeValue(h, input, {}, 0)

\* ------------------------------------------------------------------ path resolver

RECURSIVE splitFrom(_, _, _, _)
splitFrom(s, sep, i, cur) ==
    IF i > Len(s) THEN <<cur>>
    ELSE IF Ch(s, i) = sep THEN <<cur>> \o splitFrom(s, sep, i + 1, "")
    ELSE splitFrom(s, sep, i + 1, cur \o Ch(s, i))

\* s.split(sep) for a one-character separator
Split(s, sep) == splitFrom(s, sep, 1, "")

\* The exception a property read of null or undefined raises.
Throw == [t |-> "throw"]

\* key is the canonical decimal form of an index below n
IsIndexBelow(key, n) == \E i \in 0..(n - 1) : NumToStr(i) = key
IndexOf(key, n) == CHOOSE i \in 0..(n - 1) : NumToStr(i) = key

\* acc[key]: own properties, the elements and length of an array, the
\* characters and length of a string; a TypeError on null and undefined.
GetProp(h, acc, key) ==
    LET c == Deref(h, acc)
    IN  IF acc.t = "throw" THEN Throw
        ELSE IF IsNullish(acc) THEN Throw
        ELSE IF c.t = "obj" THEN
            IF IndexOfKey(c.k, key) = 0 THEN Undef ELSE c.v[IndexOfKey(c.k, key)]
        ELSE IF c.t = "arr" THEN
            IF key = "length" THEN Num(Len(c.e))
            ELSE IF IsIndexBelow(key, Len(c.e)) THEN c.e[IndexOf(key, Len(c.e)) + 1]
            ELSE Undef
        ELSE IF c.t = "str" THEN
            IF key = "length" THEN Num(Len(c.s))
            ELSE IF IsIndexBelow(key, Len(c.s)) THEN Str(Ch(c.s, IndexOf(key, Len(c.s)) + 1))
            ELSE Undef
        ELSE Undef

RECURSIVE reducePathUnguarded(_, _, _, _)
\* reducePath without the `acc == null` test
reducePathUnguarded(h, keys, i, acc) ==
    IF i > Len(keys) THEN acc
    ELSE reducePathUnguarded(h, keys, i + 1, GetProp(h, acc, keys[i]))

RECURSIVE reducePath(_, _, _, _)
\* keys.reduce((acc, key) => (acc == null ? undefined : acc[key]), acc)
reducePath(h, keys, i, acc) ==
    IF i > Len(keys) THEN acc
    ELSE reducePath(h, keys, i + 1,
                    IF acc.t # "throw" /\ IsNullish(acc) THEN Undef
                    ELSE GetProp(h, acc, keys[i]))

\* getValueAtPath of the renderer; path is Undef when the caller has none
getValueAtPath(h, obj, path) ==
    IF path.t = "undef" \/ path.s = "" THEN Str("")
    ELSE reducePath(h, Split(path.s, "."), 1, obj)

RECURSIVE reducePathHook(_, _, _, _)
\* keys.reduce((acc, key) => (acc ? acc[key] : undefined), acc)
reducePathHook(h, keys, i, acc) ==
    IF i > Len(keys) THEN acc
    ELSE reducePathHook(h, keys, i + 1,
                        IF acc.t # "throw" /\ ~Truthy(h, acc) THEN Undef
                        ELSE GetProp(h, acc, keys[i]))

\* getValueAtPath of the generator hook
getValueAtPathHook(h, obj, path) == reducePathHook(h, Split(path, "."), 1, obj)

\* ------------------------------------------------------------------ schema compiler

\* A JSONSchemaProperty is a record [type, title, hasItems, items, hasProps,
\* props]: title "" stands for no title (`prop.title || ...` treats both
\* alike), props is Object.entries(properties) as a sequence of
\* [key, prop] records, and hasItems / hasProps say whether the member
\* `items` / `properties` is there at all.

LowerChars == "abcdefghijklmnopqrstuvwxyz"
UpperChars == "ABCDEFGHIJKLMNOPQRSTUVWXYZ"

IsLower(c) == \E i \in 1..26 : Ch(LowerChars, i) = c
IsUpper(c) == \E i \in 1..26 : Ch(UpperChars, i) = c

\* m.toUpperCase() for one character
ToUpper(c) ==
    IF IsLower(c) THEN Ch(UpperChars, CHOOSE i \in 1..26 : Ch(LowerChars, i) = c) ELSE c

\* \w
IsWordChar(c) == IsLower(c) \/ IsUpper(c) \/ IsDigit(c) \/ c = "_"

RECURSIVE collapseSeparators(_, _)
\* s.replace(/[_-]+/g, ' ') from position i
collapseSeparators(s, i) ==
    IF i > Len(s) THEN ""
    ELSE IF Ch(s, i) \in {"_", "-"} THEN
        IF Ch(s, i + 1) \in {"_", "-"} THEN collapseSeparators(s, i + 1)
        ELSE " " \o collapseSeparators(s, i + 1)
    ELSE Ch(s, i) \o collapseSeparators(s, i + 1)

RECURSIVE capitalizeWords(_, _)
\* s.replace(/\b\w/g, (m) => m.toUpperCase()) from position i
capitalizeWords(s, i) ==
    IF i > Len(s) THEN ""
    ELSE IF IsWordChar(Ch(s, i)) /\ ~IsWordChar(Ch(s, i - 1))
        THEN ToUpper(Ch(s, i)) \o capitalizeWords(s, i + 1)
    ELSE Ch(s, i) \o capitalizeWords(s, i + 1)

titleCase(s) == capitalizeWords(collapseSeparators(s, 1), 1)

\* makePath that forgets the parent
makePathKeyOnly(parent, key) == key

makePath(parent, key) == IF parent # "" THEN parent \o "." \o key ELSE key

isPrimitive(t) == t \in {"string", "number", "integer", "boolean"}

\* prop.title || titleCase(key)
labelOf(key, prop) == IF prop.title # "" THEN prop.title ELSE titleCase(key)

\* Object.entries(items.properties).map(([colKey, colProp]) => ({header, path}))
columnsOf(props) ==
    [i \in 1..Len(props) |->
        [header |-> labelOf(props[i].key, props[i].prop), path |-> props[i].key]]

KeyValueList(rows) == [type |-> "keyValueList", rows |-> rows]

RECURSIVE buildBlocksLoop(_, _, _, _, _)
RECURSIVE buildBlocksAlwaysList(_, _)
RECURSIVE buildBlocks(_, _)

\* the for loop of buildBlocks over Object.entries(s.properties || {}) from
\* entry i on: the blocks and primitive rows at its end
buildBlocksLoop(entries, i, parentPath, blocks, primitiveRows) ==
    LET key == entries[i].key
        prop == entries[i].prop
        path == makePath(parentPath, key)
        label == labelOf(key, prop)
    IN  IF i > Len(entries) THEN [blocks |-> blocks, primitiveRows |-> primitiveRows]
        ELSE IF isPrimitive(prop.type) THEN
            buildBlocksLoop(entries, i + 1, parentPath, blocks,
                Append(primitiveRows, [label |-> label, bind |-> [path |-> path]]))
        ELSE IF prop.type = "array" THEN
            IF prop.hasItems /\ prop.items.type = "object" /\ prop.items.hasProps
            THEN buildBlocksLoop(entries, i + 1, parentPath,
                    Append(blocks, [type |-> "table", columns |-> columnsOf(prop.items.props),
                                    dataPath |-> path]),
                    primitiveRows)
            ELSE buildBlocksLoop(entries, i + 1, parentPath,
                    Append(blocks, [type |-> "list", dataPath |-> path]), primitiveRows)
        ELSE IF prop.type = "object" /\ prop.hasProps THEN
            buildBlocksLoop(entries, i + 1, parentPath,
                Append(blocks, [type |-> "heading", text |-> label, level |-> 3])
                    \o buildBlocks(prop, path),
                primitiveRows)
        ELSE buildBlocksLoop(entries, i + 1, parentPath, blocks, primitiveRows)

\* buildBlocks that pushes the keyValueList whether or not it has rows
buildBlocksAlwaysList(s, parentPath) ==
    LET r == buildBlocksLoop(IF s.hasProps THEN s.props ELSE <<>>, 1, parentPath, <<>>, <<>>)
    IN  Append(r.blocks, KeyValueList(r.primitiveRows))

buildBlocks(s, parentPath) ==
    LET r == buildBlocksLoop(IF s.hasProps THEN s.props ELSE <<>>, 1, parentPath, <<>>, <<>>)
    IN  IF Len(r.primitiveRows) > 0
        THEN Append(r.blocks, KeyValueList(r.primitiveRows))
        ELSE r.blocks

\* The styles of the returned TemplateConfig are constants; the blocks are
\* what depends on the schema.
schemaToTemplateConfig(schema) == [blocks |-> buildBlocks(schema, "")]

\* ------------------------------------------------------------------ renderer

\* the element of a set of one element; { f(x) : x \in {e} } computes e once
Only(S) == CHOOSE x \in S : TRUE

\* A template block is a record with the members the template gives it; a
\* member left out is undefined.
Has(b, f) == f \in DOMAIN b

RECURSIVE ReplaceAll(_, _, _)
\* s.replace(/c/g, rep) for a character c
ReplaceAll(s, c, rep) ==
    IF Len(s) = 0 THEN ""
    ELSE (IF Ch(s, 1) = c THEN rep ELSE Ch(s, 1)) \o ReplaceAll(From(s, 2), c, rep)

\* the replace chain of escapeHtml without its last step
escapeHtmlStringNoApos(s) ==
    ReplaceAll(ReplaceAll(ReplaceAll(ReplaceAll(s,
        "&", "&amp;"), "<", "&lt;"), ">", "&gt;"), "\"", "&quot;")

\* the replace chain of escapeHtml on a string
escapeHtmlString(s) ==
    ReplaceAll(ReplaceAll(ReplaceAll(ReplaceAll(ReplaceAll(s,
        "&", "&amp;"), "<", "&lt;"), ">", "&gt;"), "\"", "&quot;"), "'", "&#39;")

RECURSIVE JsString(_, _)
RECURSIVE joinElements(_, _, _, _)

\* Array.prototype.join: null and undefined elements give ''
joinElements(h, e, i, sep) ==
    IF i > Len(e) THEN ""
    ELSE (IF i = 1 THEN "" ELSE sep)
         \o (IF IsNullish(e[i]) THEN "" ELSE JsString(h, e[i]))
         \o joinElements(h, e, i + 1, sep)

\* String(x)
JsString(h, x) ==
    CASE x.t = "str" -> x.s
      [] x.t = "num" -> NumToStr(x.n)
      [] x.t = "bool" -> IF x.b THEN "true" ELSE "false"
      [] x.t = "null" -> "null"
      [] x.t = "undef" -> "undefined"
      [] OTHER -> IF IsArray(h, x) THEN joinElements(h, Deref(h, x).e, 1, ",")
                  ELSE "[object Object]"

\* escapeHtml(v)
escapeHtml(h, v) == IF IsNullish(v) THEN "" ELSE escapeHtmlString(JsString(h, v))

RECURSIVE kebab(_)
\* k.replace(/[A-Z]/g, m => '-' + m.toLowerCase())
kebab(k) ==
    IF Len(k) = 0 THEN ""
    ELSE (IF IsUpper(Ch(k, 1))
          THEN "-" \o Ch(LowerChars, CHOOSE i \in 1..26 : Ch(UpperChars, i) = Ch(k, 1))
          ELSE Ch(k, 1))
         \o kebab(From(k, 2))

RECURSIVE cssEntries(_, _)
cssEntries(style, i) ==
    IF i > Len(style) THEN <<>>
    ELSE (IF style[i].v # "" THEN <<kebab(style[i].k) \o ":" \o style[i].v>> ELSE <<>>)
         \o cssEntries(style, i + 1)

\* cssToString(style): a style is the sequence of its [k, v] entries, the
\* empty sequence when there is none
cssToString(style) == Join(cssEntries(style, 1), ";")

\* ` style="..."` when the style text is not empty
StyleAttr(st) == IF st # "" THEN " style=\"" \o st \o "\"" ELSE ""

\* extractPath of an object carrying bind: bind?.path || undefined
extractPath(x) ==
    IF Has(x, "bind") /\ Has(x.bind, "path") /\ x.bind.path # ""
    THEN Str(x.bind.path) ELSE Undef

\* extractPath(x) || x.path
pathOf(x) ==
    IF extractPath(x) # Undef THEN extractPath(x)
    ELSE IF Has(x, "path") THEN Str(x.path) ELSE Undef

\* a path counts as given when it is a non-empty string
PathGiven(p) == p.t = "str" /\ p.s # ""

RECURSIVE displayElements(_, _, _)
\* v.map((x) => (x && typeof x === 'object' ? JSON.stringify(x) : String(x)))
displayElements(h, e, i) ==
    IF i > Len(e) THEN <<>>
    ELSE <<IF e[i].t \in {"arr", "obj", "ref"} THEN JsonStringify(h, e[i]).s
           ELSE JsString(h, e[i])>>
         \o displayElements(h, e, i + 1)

\* valueToDisplay without its first line, the null/undefined guard
valueToDisplayNoGuard(h, v) ==
    IF IsArray(h, v) THEN Join(displayElements(h, Deref(h, v).e, 1), ", ")
    ELSE IF v.t \in {"obj", "ref"} THEN JsonStringify(h, v).s
    ELSE JsString(h, v)

valueToDisplay(h, v) ==
    IF IsNullish(v) THEN ""
    ELSE IF IsArray(h, v) THEN Join(displayElements(h, Deref(h, v).e, 1), ", ")
    ELSE IF v.t \in {"obj", "ref"} THEN JsonStringify(h, v).s
    ELSE JsString(h, v)

RECURSIVE wordRunEnd(_, _)
\* end of the run of [\w.] characters that starts at i
wordRunEnd(s, i) ==
    IF i <= Len(s) /\ (IsWordChar(Ch(s, i)) \/ Ch(s, i) = ".") THEN wordRunEnd(s, i + 1) ELSE i

\* a match of /\{\{\s*([\w.]+)\s*\}\}/ that starts at i
mustacheAt(text, i) ==
    LET j == skipWs(text, i + 2)
        k == wordRunEnd(text, j)
        m == skipWs(text, k)
    IN  IF StartsWithAt(text, "{{", i) /\ k > j /\ StartsWithAt(text, "}}", m)
        THEN [ok |-> TRUE, path |-> SubSeq(text, j, k - 1), next |-> m + 2]
        ELSE [ok |-> FALSE, path |-> "", next |-> i]

\* the replacement replaceMustache computes for a placeholder
mustacheValue(h, data, path) ==
    LET v == getValueAtPath(h, data, Str(path))
    IN  IF IsArray(h, v) THEN escapeHtmlString(joinElements(h, Deref(h, v).e, 1, ", "))
        ELSE IF v.t \in {"obj", "ref"} THEN escapeHtmlString(JsonStringify(h, v).s)
        ELSE escapeHtml(h, v)

RECURSIVE replaceMustacheFrom(_, _, _, _)
replaceMustacheFrom(h, text, data, i) ==
    LET m == mustacheAt(text, i)
    IN  IF i > Len(text) THEN ""
        ELSE IF m.ok THEN mustacheValue(h, data, m.path) \o replaceMustacheFrom(h, text, data, m.next)
        ELSE Ch(text, i) \o replaceMustacheFrom(h, text, data, i + 1)

replaceMustache(h, text, data) == replaceMustacheFrom(h, text, data, 1)

\* resolveStyles: the style for a canonical key, the alias standing in for
\* a missing document or paragraph style; <<>> when there is none
resolveStyle(styles, key) ==
    IF Has(styles, key) THEN styles[key]
    ELSE IF key = "document" /\ Has(styles, "page") THEN styles.page
    ELSE IF key = "paragraph" /\ Has(styles, "p") THEN styles.p
    ELSE <<>>

\* b.style || fallback
blockStyle(b, fallback) == IF Has(b, "style") THEN b.style ELSE fallback

\* Math.min(Math.max(b.level || 2, 1), 6)
headingLevel(b) ==
    LET l == IF Has(b, "level") /\ b.level # 0 THEN b.level ELSE 2
    IN  IF l < 1 THEN 1 ELSE IF l > 6 THEN 6 ELSE l

renderHeading(h, styles, b, data) ==
    LET level == headingLevel(b)
        hKey == "h" \o NumToStr(level)
        cand == IF Has(b, "style") THEN b.style
                ELSE IF Has(styles, hKey) THEN styles[hKey]
                ELSE resolveStyle(styles, "heading")
    IN  "<h" \o NumToStr(level) \o StyleAttr(cssToString(cand)) \o ">"
        \o replaceMustache(h, b.text, data) \o "</h" \o NumToStr(level) \o ">"

renderParagraph(h, styles, b, data) ==
    LET boundPath == extractPath(b)
        boundVal == IF PathGiven(boundPath) THEN getValueAtPath(h, data, boundPath) ELSE Undef
        textRaw == IF Has(b, "text") THEN replaceMustache(h, b.text, data)
                   ELSE valueToDisplay(h, boundVal)
    IN  "<p" \o StyleAttr(cssToString(blockStyle(b, resolveStyle(styles, "paragraph"))))
        \o ">" \o escapeHtmlString(textRaw) \o "</p>"

\* the value of a LinePart: bound when it has a path, else its text ?? ''
partValue(h, part, data) ==
    IF PathGiven(pathOf(part)) THEN getValueAtPath(h, data, pathOf(part))
    ELSE IF Has(part, "text") THEN Str(part.text) ELSE Str("")

renderLine(h, styles, b, data) ==
    LET parts == IF Has(b, "parts") THEN b.parts ELSE <<>>
        texts == [i \in 1..Len(parts) |->
                    escapeHtmlString(valueToDisplay(h, partValue(h, parts[i], data)))]
    IN  "<div" \o StyleAttr(cssToString(blockStyle(b, resolveStyle(styles, "line"))))
        \o ">" \o Join(texts, " ") \o "</div>"

\* escapeHtml(valueToDisplay(v)) for each element of an array value
escapedElements(h, arr) ==
    [i \in 1..Len(Deref(h, arr).e) |->
        escapeHtmlString(valueToDisplay(h, Deref(h, arr).e[i]))]

RECURSIVE listItems(_, _, _, _)
\* b.items.flatMap(...): a string item is [lit |-> text], any other item a LinePart
listItems(h, items, data, i) ==
    LET it == items[i]
        val == partValue(h, it, data)
    IN  IF i > Len(items) THEN <<>>
        ELSE (IF Has(it, "lit") THEN <<replaceMustache(h, it.lit, data)>>
              ELSE IF IsArray(h, val) THEN escapedElements(h, val)
              ELSE <<escapeHtmlString(valueToDisplay(h, val))>>)
             \o listItems(h, items, data, i + 1)

\* the source of a block when only dataPath is looked at
sourceOfDataPathOnly(b) ==
    IF Has(b, "dataPath") /\ b.dataPath # "" THEN Str(b.dataPath) ELSE Undef

\* b.dataPath || b.sourcePath
sourceOf(b) ==
    IF Has(b, "dataPath") /\ b.dataPath # "" THEN Str(b.dataPath)
    ELSE IF Has(b, "sourcePath") /\ b.sourcePath # "" THEN Str(b.sourcePath)
    ELSE Undef

renderList(h, styles, b, data) ==
    LET source == sourceOf(b)
        arr == getValueAtPath(h, data, source)
        itemsResolved ==
            IF PathGiven(source) THEN (IF IsArray(h, arr) THEN escapedElements(h, arr) ELSE <<>>)
            ELSE IF Has(b, "items") /\ Len(b.items) > 0 THEN listItems(h, b.items, data, 1)
            ELSE <<>>
        liS == IF Has(styles, "listItem")
               THEN " style=\"" \o cssToString(styles.listItem) \o "\"" ELSE ""
        li == [i \in 1..Len(itemsResolved) |-> "<li" \o liS \o ">" \o itemsResolved[i] \o "</li>"]
        tag == IF Has(b, "ordered") /\ b.ordered THEN "ol" ELSE "ul"
    IN  "<" \o tag \o StyleAttr(cssToString(blockStyle(b, resolveStyle(styles, "list"))))
        \o ">" \o Join(li, "") \o "</" \o tag \o ">"

renderTable(h, styles, b, data) ==
    LET source == sourceOf(b)
        rowsSrc == IF PathGiven(source) THEN getValueAtPath(h, data, source) ELSE Arr(<<data>>)
        rows == IF IsArray(h, rowsSrc) THEN Deref(h, rowsSrc).e ELSE <<>>
        tableS == cssToString(blockStyle(b, resolveStyle(styles, "table")))
        thS == cssToString(IF Has(b, "headerStyle") THEN b.headerStyle ELSE resolveStyle(styles, "th"))
        tdS == cssToString(IF Has(b, "cellStyle") THEN b.cellStyle ELSE resolveStyle(styles, "td"))
        head == [c \in 1..Len(b.columns) |->
                    "<th" \o StyleAttr(thS) \o ">" \o escapeHtmlString(b.columns[c].header) \o "</th>"]
        cell(row, c) ==
            "<td" \o StyleAttr(tdS) \o ">"
            \o escapeHtmlString(valueToDisplay(h, getValueAtPath(h, row, Str(b.columns[c].path))))
            \o "</td>"
        body == [r \in 1..Len(rows) |->
                    "<tr>" \o Join([c \in 1..Len(b.columns) |-> cell(rows[r], c)], "") \o "</tr>"]
    IN  "<table" \o StyleAttr(tableS) \o "><thead><tr>" \o Join(head, "")
        \o "</tr></thead><tbody>" \o Join(body, "") \o "</tbody></table>"

\* valueToDisplay(getValueAtPath(normalizedData, extractPath(r) || r.path))
rowValue(h, r, data) == valueToDisplay(h, getValueAtPath(h, data, pathOf(r)))

renderKeyValueTable(h, styles, b, data) ==
    LET rows == IF Has(b, "rows") THEN b.rows ELSE <<>>
        thS == cssToString(resolveStyle(styles, "th"))
        tdS == cssToString(resolveStyle(styles, "td"))
        body == [i \in 1..Len(rows) |->
                    "<tr><th" \o StyleAttr(thS) \o ">" \o escapeHtmlString(rows[i].label)
                    \o "</th><td" \o StyleAttr(tdS) \o ">"
                    \o escapeHtmlString(rowValue(h, rows[i], data)) \o "</td></tr>"]
    IN  "<table" \o StyleAttr(cssToString(blockStyle(b, resolveStyle(styles, "table"))))
        \o "><tbody>" \o Join(body, "") \o "</tbody></table>"

renderKeyValueList(h, styles, b, data) ==
    LET rows == IF Has(b, "rows") THEN b.rows ELSE <<>>
        rowS == cssToString(resolveStyle(styles, "kvRow"))
        labelS == cssToString(resolveStyle(styles, "kvLabel"))
        valueS == cssToString(resolveStyle(styles, "kvValue"))
        out == [i \in 1..Len(rows) |->
                    "<div class=\"kv-row\"" \o StyleAttr(rowS) \o ">"
                    \o "<div class=\"kv-label\"" \o StyleAttr(labelS) \o ">"
                    \o escapeHtmlString(rows[i].label) \o "</div>"
                    \o "<div class=\"kv-value\"" \o StyleAttr(valueS) \o ">"
                    \o escapeHtmlString(rowValue(h, rows[i], data)) \o "</div>"
                    \o "</div>"]
    IN  "<div class=\"kv-list\""
        \o StyleAttr(cssToString(blockStyle(b, resolveStyle(styles, "kvList"))))
        \o ">" \o Join(out, "") \o "</div>"

renderDivider(styles, b) ==
    "<hr" \o StyleAttr(cssToString(blockStyle(b, resolveStyle(styles, "divider")))) \o "/>"

\* b.size ?? 12
renderSpacer(b) ==
    "<div style=\"height:" \o NumToStr(IF Has(b, "size") THEN b.size ELSE 12) \o "px\"></div>"

\* a signature member as the value it is in the template: a string
\* [lit |-> text] or an object {bind: {path}}
memberValue(member) ==
    IF Has(member, "lit") THEN Str(member.lit)
    ELSE Obj(<<"bind">>, <<IF Has(member.bind, "path")
                           THEN Obj(<<"path">>, <<Str(member.bind.path)>>)
                           ELSE Obj(<<>>, <<>>)>>)

\* name and title of a signature: extractPath takes a string member for a
\* path and an object member's bind.path; without a path the member itself
\* is displayed
signaturePart(h, b, f, data) ==
    LET path == IF ~Has(b, f) THEN Undef
                ELSE IF Has(b[f], "lit") THEN Str(b[f].lit)
                ELSE extractPath(b[f])
        shown == IF PathGiven(path) THEN getValueAtPath(h, data, path)
                 ELSE IF ~Has(b, f) THEN Undef
                 ELSE memberValue(b[f])
    IN  escapeHtmlString(valueToDisplay(h, shown))

renderSignature(h, styles, b, data) ==
    LET name == signaturePart(h, b, "name", data)
        title == signaturePart(h, b, "title", data)
        greeting == IF Has(b, "showRegards") /\ b.showRegards THEN "<div>Regards,</div>" ELSE ""
    IN  "<div" \o StyleAttr(cssToString(blockStyle(b, resolveStyle(styles, "signature"))))
        \o ">" \o greeting \o "<div style=\"margin-top:12px;font-weight:600;\">" \o name
        \o "</div>" \o (IF title # "" THEN "<div>" \o title \o "</div>" ELSE "") \o "</div>"

\* the loop body with a default case that pushes an empty part
renderBlockPushEmpty(h, styles, b, data) ==
    CASE b.type = "heading" -> <<renderHeading(h, styles, b, data)>>
      [] b.type = "paragraph" -> <<renderParagraph(h, styles, b, data)>>
      [] b.type = "line" -> <<renderLine(h, styles, b, data)>>
      [] b.type = "list" -> <<renderList(h, styles, b, data)>>
      [] b.type = "table" -> <<renderTable(h, styles, b, data)>>
      [] b.type = "keyValueTable" -> <<renderKeyValueTable(h, styles, b, data)>>
      [] b.type = "keyValueList" -> <<renderKeyValueList(h, styles, b, data)>>
      [] b.type = "divider" -> <<renderDivider(styles, b)>>
      [] b.type = "spacer" -> <<renderSpacer(b)>>
      [] b.type = "signature" -> <<renderSignature(h, styles, b, data)>>
      [] OTHER -> <<"">>

\* one iteration of the loop over config.blocks: what is pushed to parts
\* (nothing for a block type the switch has no case for)
renderBlock(h, styles, b, data) ==
    CASE b.type = "heading" -> <<renderHeading(h, styles, b, data)>>
      [] b.type = "paragraph" -> <<renderParagraph(h, styles, b, data)>>
      [] b.type = "line" -> <<renderLine(h, styles, b, data)>>
      [] b.type = "list" -> <<renderList(h, styles, b, data)>>
      [] b.type = "table" -> <<renderTable(h, styles, b, data)>>
      [] b.type = "keyValueTable" -> <<renderKeyValueTable(h, styles, b, data)>>
      [] b.type = "keyValueList" -> <<renderKeyValueList(h, styles, b, data)>>
      [] b.type = "divider" -> <<renderDivider(styles, b)>>
      [] b.type = "spacer" -> <<renderSpacer(b)>>
      [] b.type = "signature" -> <<renderSignature(h, styles, b, data)>>
      [] OTHER -> <<>>

RECURSIVE renderParts(_, _, _, _, _)
renderParts(h, styles, blocks, data, i) ==
    IF i > Len(blocks) THEN <<>>
    ELSE renderBlock(h, styles, blocks[i], data) \o renderParts(h, styles, blocks, data, i + 1)

\* renderBlocksFromTemplateConfig(config, data); the data are normalized
\* first, and a RangeError of the normalizer propagates (err)
renderBlocksFromTemplateConfig(h, config, data) ==
    LET styles == IF Has(config, "styles") THEN config.styles ELSE [none |-> <<>>]
        blocks == IF Has(config, "blocks") THEN config.blocks ELSE <<>>
    IN  Only({ IF normalized.err THEN [err |-> TRUE, html |-> ""]
               ELSE [err |-> FALSE,
                     html |-> Join(renderParts(h, styles, blocks, normalized.val, 1), "\n")] :
               normalized \in {normalizeDataForRendering(h, data)} })

\* renderDocumentFromTemplateConfig(config, data, {title}); the static text
\* of the head (meta tags and the style sheet) is left out of the string
renderDocumentFromTemplateConfig(h, config, data, title) ==
    LET styles == IF Has(config, "styles") THEN config.styles ELSE [none |-> <<>>]
        docS == cssToString(resolveStyle(styles, "document"))
        shownTitle == IF title # "" THEN title
                      ELSE IF Has(config, "title") /\ config.title # "" THEN config.title
                      ELSE "Document"
    IN  Only({ IF body.err THEN [err |-> TRUE, html |-> ""]
               ELSE [err |-> FALSE,
                     html |-> "<!DOCTYPE html>\n<html lang=\"en\">\n  <head>\n    <title>"
                              \o escapeHtmlString(shownTitle)
                              \o "</title>\n  </head>\n  <body>\n    <div class=\"container\""
                              \o StyleAttr(docS) \o ">\n      " \o body.html
                              \o "\n    </div>\n  </body>\n</html>"] :
               body \in {renderBlocksFromTemplateConfig(h, config, data)} })

\* ------------------------------------------------------------------ generate workflow

NoError == <<>>
ErrorOf(message) == <<message>>

NotAuthenticated == ErrorOf("User not authenticated")
MissingTemplateConfig ==
    ErrorOf("Template is missing metadata.templateConfig. All structured layouts must be stored under metadata.templateConfig.")
RangeError == ErrorOf("Maximum call stack size exceeded")

RECURSIVE allDigits(_, _)
allDigits(s, i) == i > Len(s) \/ (IsDigit(Ch(s, i)) /\ allDigits(s, i + 1))

\* /^-?\d+(\.\d+)?$/.test(s)
IsNumericString(s) ==
    LET t == IF Len(s) > 0 /\ Ch(s, 1) = "-" THEN From(s, 2) ELSE s
        dots == {i \in 1..Len(t) : Ch(t, i) = "."}
    IN  IF dots = {} THEN Len(t) > 0 /\ allDigits(t, 1)
        ELSE \E d \in dots :
                /\ d > 1 /\ d < Len(t)
                /\ allDigits(SubSeq(t, 1, d - 1), 1)
                /\ allDigits(From(t, d + 1), 1)

RECURSIVE requiredErrors(_, _, _, _)
requiredErrors(h, required, formData, i) ==
    LET v == GetProp(h, formData, required[i])
    IN  IF i > Len(required) THEN <<>>
        ELSE (IF IsNullish(v) \/ v = Str("") THEN <<required[i] \o " is required">> ELSE <<>>)
             \o requiredErrors(h, required, formData, i + 1)

\* the switch on prop.type for a value that is not null or undefined
typeErrors(h, key, prop, v) ==
    CASE prop.type \in {"number", "integer"} ->
            IF v.t = "num" \/ (v.t = "str" /\ IsNumericString(v.s)) THEN <<>>
            ELSE <<key \o " must be a number">>
      [] prop.type = "array" ->
            IF IsArray(h, v) THEN <<>> ELSE <<key \o " must be an array">>
      [] prop.type = "object" ->
            IF v.t \in {"obj", "ref"} /\ ~IsArray(h, v) THEN <<>>
            ELSE <<key \o " must be an object">>
      [] prop.type = "boolean" ->
            IF v.t = "bool" \/ v = Str("true") \/ v = Str("false") THEN <<>>
            ELSE <<key \o " must be a boolean">>
      [] OTHER -> <<>>

RECURSIVE propertyErrors(_, _, _, _)
propertyErrors(h, props, formData, i) ==
    LET v == GetProp(h, formData, props[i].key)
    IN  IF i > Len(props) THEN <<>>
        ELSE (IF IsNullish(v) THEN <<>> ELSE typeErrors(h, props[i].key, props[i].prop, v))
             \o propertyErrors(h, props, formData, i + 1)

\* validateAgainstSchema(schema, formData) of a template; the schemas here
\* declare no format, so the date check is never entered
validateAgainstSchema(h, template, formData) ==
    IF ~Has(template, "json_schema") \/ ~template.json_schema.hasProps THEN <<>>
    ELSE requiredErrors(h, template.json_schema.required, formData, 1)
         \o propertyErrors(h, template.json_schema.props, formData, 1)

\* template.name || template.type || 'Document'
titleOf(template) ==
    IF Has(template, "name") /\ template.name # "" THEN template.name
    ELSE IF Has(template, "type") /\ template.type # "" THEN template.type
    ELSE "Document"

\* a template whose metadata.templateConfig is an object
HasTemplateConfig(template) ==
    Has(template, "metadata") /\ Has(template.metadata, "templateConfig")

BuildOk(html) == [err |-> FALSE, error |-> NoError, html |-> html]
BuildThrow(e) == [err |-> TRUE, error |-> e, html |-> ""]

\* the rendering step of buildDocumentHTML for a given TemplateConfig
buildWith(h, config, template, normalizedData) ==
    Only({ IF doc.err THEN BuildThrow(RangeError) ELSE BuildOk(doc.html) :
           doc \in {renderDocumentFromTemplateConfig(h, config, normalizedData, titleOf(template))} })

\* buildDocumentHTML that compiles the JSON schema when the template has
\* no metadata.templateConfig
buildDocumentHTMLFromSchema(h, template, formData) ==
    Only({ IF normalized.err THEN BuildThrow(RangeError)
           ELSE IF HasTemplateConfig(template)
           THEN buildWith(h, template.metadata.templateConfig, template, normalized.val)
           ELSE IF Has(template, "json_schema")
           THEN buildWith(h, schemaToTemplateConfig(template.json_schema), template, normalized.val)
           ELSE BuildThrow(MissingTemplateConfig) :
           normalized \in {normalizeDataForRendering(h, formData)} })

\* buildDocumentHTML(template, formData)
buildDocumentHTML(h, template, formData) ==
    Only({ IF normalized.err THEN BuildThrow(RangeError)
           ELSE IF ~HasTemplateConfig(template) THEN BuildThrow(MissingTemplateConfig)
           ELSE buildWith(h, template.metadata.templateConfig, template, normalized.val) :
           normalized \in {normalizeDataForRendering(h, formData)} })

\* the preparation without the validation step
prepareDocumentUnvalidated(h, template, formData) == buildDocumentHTML(h, template, formData)

\* generate from the resolved user up to the call of the emitter: the
\* error thrown, or the HTML handed to createPdf / createDocx
prepareDocument(h, template, formData) ==
    Only({ LET errors == validateAgainstSchema(h, template, normalized.val)
           IN  IF normalized.err THEN BuildThrow(RangeError)
               ELSE IF Len(errors) > 0
               THEN BuildThrow(ErrorOf("Validation failed: " \o Join(errors, "; ")))
               ELSE buildDocumentHTML(h, template, normalized.val) :
           normalized \in {normalizeDataForRendering(h, formData)} })

\* ------------------------------------------------------------------ DOCX emitter

\* A document node is a record: a paragraph with its text, a heading with
\* its level and text, a table with its rows of cells, a paragraph holding
\* an image run.
Paragraph(text) == [node |-> "paragraph", text |-> text]
HeadingParagraph(level, text) == [node |-> "heading", level |-> level, text |-> text]
TableCell(text, bold) == [text |-> text, bold |-> bold]
Table(rows) == [node |-> "table", rows |-> rows]
ImageParagraph(imgType) == [node |-> "image", type |-> imgType]

\* the result of a pattern that did not match (null)
NoMatch == [found |-> FALSE]

LowerMap ==
    [c \in {"A", "B", "C", "D", "E", "F", "G", "H", "I", "J", "K", "L", "M",
            "N", "O", "P", "Q", "R", "S", "T", "U", "V", "W", "X", "Y", "Z"} |->
        Ch("abcdefghijklmnopqrstuvwxyz",
           CHOOSE k \in 1..Len("ABCDEFGHIJKLMNOPQRSTUVWXYZ") : Ch("ABCDEFGHIJKLMNOPQRSTUVWXYZ", k) = c)]

\* one letter in lower case
lowerChar(c) == IF c \in DOMAIN LowerMap THEN LowerMap[c] ELSE c

RECURSIVE lowerRange(_, _, _)
\* the characters lo..hi of s in lower case
lowerRange(s, lo, hi) ==
    IF lo > hi THEN ""
    ELSE IF lo = hi THEN lowerChar(Ch(s, lo))
    ELSE lowerRange(s, lo, (lo + hi) \div 2) \o lowerRange(s, (lo + hi) \div 2 + 1, hi)

\* the text a pattern with the i flag compares: ASCII letters in lower case
Lower(s) == Only({ lowerRange(v, 1, Len(v)) : v \in {s} })

RECURSIVE FirstTextIn(_, _, _, _)
\* the first position in lo..hi where pat occurs in s, 0 when there is none
FirstTextIn(s, pat, lo, hi) ==
    IF lo > hi THEN 0
    ELSE IF lo = hi THEN (IF StartsWithAt(s, pat, lo) THEN lo ELSE 0)
    ELSE Only({ Only({ IF l # 0 THEN l ELSE FirstTextIn(s, pat, mid + 1, hi) :
                       l \in {FirstTextIn(s, pat, lo, mid)} }) :
                mid \in {(lo + hi) \div 2} })

\* the first position from i on where pat occurs in s, 0 when there is none
indexOf(s, pat, i) ==
    Only({ FirstTextIn(v[1], v[2], v[3], Len(v[1]) - Len(v[2]) + 1) : v \in {<<s, pat, i>>} })

\* the first position from i on where one of pats occurs, 0 when none does
firstOf(s, pats, i) ==
    Only({ IF hits = {} THEN 0 ELSE CHOOSE a \in hits : \A b \in hits : a <= b :
           hits \in {{indexOf(s, pat, i) : pat \in pats} \ {0}} })

\* the length of the match of /<\/(h\d|p|div|li|tr)>/i at i, 0 when none
closingTagAt(lc, i) ==
    IF ~StartsWithAt(lc, "</", i) THEN 0
    ELSE IF Ch(lc, i + 2) = "h" /\ IsDigit(Ch(lc, i + 3)) /\ Ch(lc, i + 4) = ">" THEN 5
    ELSE IF StartsWithAt(lc, "</p>", i) THEN 4
    ELSE IF StartsWithAt(lc, "</div>", i) THEN 6
    ELSE IF StartsWithAt(lc, "</li>", i) \/ StartsWithAt(lc, "</tr>", i) THEN 5
    ELSE 0

\* the length of the match of /<br\s*\/?\s*>/i at i, 0 when none
brAt(lc, i) ==
    IF ~StartsWithAt(lc, "<br", i) THEN 0
    ELSE LET a == skipWs(lc, i + 3)
             b == IF Ch(lc, a) = "/" THEN a + 1 ELSE a
             c == skipWs(lc, b)
         IN  IF Ch(lc, c) = ">" THEN c - i + 1 ELSE 0

\* the length of the match of /<[^>]+>/ at i, 0 when none
anyTagAt(s, i) ==
    IF Ch(s, i) # "<" THEN 0
    ELSE Only({ IF gt >= i + 2 THEN gt - i + 1 ELSE 0 : gt \in {indexOf(s, ">", i + 1)} })

RECURSIVE replaceClosingTags(_, _, _)
\* .replace(/<\/(h\d|p|div|li|tr)>/gi, '\n'), from i on: up to the next
\* </ the text is kept
replaceClosingTags(s, lc, i) ==
    Only({ IF at = 0 THEN From(s, i)
           ELSE Only({ IF len > 0
                       THEN SubSeq(s, i, at - 1) \o "\n" \o replaceClosingTags(s, lc, at + len)
                       ELSE SubSeq(s, i, at) \o replaceClosingTags(s, lc, at + 1) :
                       len \in {closingTagAt(lc, at)} }) :
           at \in {indexOf(lc, "</", i)} })

RECURSIVE replaceBr(_, _, _)
\* .replace(/<br\s*\/?\s*>/gi, '\n'), from i on
replaceBr(s, lc, i) ==
    Only({ IF at = 0 THEN From(s, i)
           ELSE Only({ IF len > 0
                       THEN SubSeq(s, i, at - 1) \o "\n" \o replaceBr(s, lc, at + len)
                       ELSE SubSeq(s, i, at) \o replaceBr(s, lc, at + 1) :
                       len \in {brAt(lc, at)} }) :
           at \in {indexOf(lc, "<br", i)} })

RECURSIVE removeTags(_, _)
\* .replace(/<[^>]+>/g, ''), from i on
removeTags(s, i) ==
    Only({ IF at = 0 THEN From(s, i)
           ELSE Only({ IF len > 0
                       THEN SubSeq(s, i, at - 1) \o removeTags(s, at + len)
                       ELSE SubSeq(s, i, at) \o removeTags(s, at + 1) :
                       len \in {anyTagAt(s, at)} }) :
           at \in {indexOf(s, "<", i)} })

RECURSIVE newlineRun(_, _)
\* the number of line feeds in a row from i on
newlineRun(s, i) == IF Ch(s, i) = "\n" THEN 1 + newlineRun(s, i + 1) ELSE 0

RECURSIVE collapseNewlines(_, _)
\* .replace(/\n{3,}/g, '\n\n'), from i on
collapseNewlines(s, i) ==
    Only({ IF at = 0 THEN From(s, i)
           ELSE Only({ SubSeq(s, i, at - 1) \o "\n\n" \o collapseNewlines(s, at + run) :
                       run \in {newlineRun(s, at)} }) :
           at \in {indexOf(s, "\n\n\n", i)} })

\* a text with its lower-case form
withLower(s) == Only({ <<v, Lower(v)>> : v \in {s} })

stripTags(html) ==
    Only({ Trim(d) :
           d \in { collapseNewlines(c, 1) :
                   c \in { removeTags(b[1], 1) :
                           b \in { withLower(replaceBr(a[1], a[2], 1)) :
                                   a \in { withLower(replaceClosingTags(h[1], h[2], 1)) :
                                           h \in {withLower(html)} } } } } })

RECURSIVE splitBlankLines(_, _)
\* text.split(/\n{2,}/), from i on
splitBlankLines(s, i) ==
    Only({ IF at = 0 THEN <<From(s, i)>>
           ELSE <<SubSeq(s, i, at - 1)>> \o splitBlankLines(s, at + newlineRun(s, at)) :
           at \in {indexOf(s, "\n\n", i)} })

\* the text as one paragraph, not split
textParagraphsUnsplit(text) == IF text = "" THEN <<>> ELSE <<Paragraph(text)>>

\* text ? text.split(/\n{2,}/).map((t) => new Paragraph(...)) : []
textParagraphs(text) ==
    IF text = "" THEN <<>>
    ELSE Only({ [i \in 1..Len(parts) |-> Paragraph(parts[i])] :
                parts \in {splitBlankLines(text, 1)} })

\* extractTag on a text given with its lower-case form
extractTagIn(html, lc, tag) ==
    Only({ IF startIdx = 0 THEN NoMatch ELSE
      Only({ IF gt = 0 THEN NoMatch ELSE
        Only({ IF closeIdx = 0 THEN NoMatch
               ELSE [found |-> TRUE,
                     before |-> SubSeq(html, 1, startIdx - 1),
                     inner |-> SubSeq(html, gt + 1, closeIdx - 1),
                     after |-> From(html, closeIdx + Len(tag) + 3)] :
               closeIdx \in {indexOf(lc, "</" \o tag \o ">", gt + 1)} }) :
             gt \in {indexOf(lc, ">", startIdx + Len(tag) + 1)} }) :
           startIdx \in {indexOf(lc, "<" \o tag, 1)} })

extractTag(html, tag) ==
    Only({ extractTagIn(h[1], h[2], t) : h \in {withLower(html)}, t \in {tag} })

RECURSIVE execAll(_, _, _, _, _)
\* the successive matches of /<open[^>]*>([\s\S]*?)<\/close>/gi from pos
\* on, where opens are the texts "<open" and closes the texts "</close>"
\* the pattern allows: for each match the tag name and the first group
execAll(html, lc, opens, closes, pos) ==
    Only({ IF at = 0 THEN <<>> ELSE
      Only({ IF gt = 0 THEN <<>> ELSE
        Only({ IF closeIdx = 0 THEN <<>>
               ELSE <<[tagName |-> SubSeq(lc, at + 1, at + Len(Only(opens)) - 1),
                       inner |-> SubSeq(html, gt + 1, closeIdx - 1)]>>
                    \o execAll(html, lc, opens, closes, closeIdx + Len(Only(closes))) :
               closeIdx \in {firstOf(lc, closes, gt + 1)} }) :
             gt \in {indexOf(lc, ">", at + Len(Only(opens)))} }) :
           at \in {firstOf(lc, opens, pos)} })

\* the cells of one row when only td cells are looked for
tableCellsTdOnly(cellsHtml) ==
    Only({ [c \in 1..Len(cells) |-> TableCell(stripTags(cells[c].inner), FALSE)] :
           cells \in { execAll(h[1], h[2], {"<td"}, {"</td>"}, 1) : h \in {withLower(cellsHtml)} } })

\* the cells of one row: lines 117-134
tableCells(cellsHtml) ==
    Only({ [c \in 1..Len(cells) |-> TableCell(stripTags(cells[c].inner), cells[c].tagName = "th")] :
           cells \in { execAll(h[1], h[2], {"<td", "<th"}, {"</td>", "</th>"}, 1) :
                       h \in {withLower(cellsHtml)} } })

\* the rows of a table: lines 112-136
tableRows(inner) ==
    Only({ [r \in 1..Len(rs) |-> tableCells(rs[r].inner)] :
           rs \in { execAll(h[1], h[2], {"<tr"}, {"</tr>"}, 1) : h \in {withLower(inner)} } })

parseTable(html) ==
    Only({ IF ~m.found THEN NoMatch
           ELSE [found |-> TRUE,
                 beforeTextParas |-> textParagraphs(stripTags(m.before)),
                 nodes |-> <<Table(tableRows(m.inner))>>,
                 afterHtml |-> m.after] :
           m \in {extractTag(html, "table")} })

RECURSIVE parseHeadingFrom(_, _)
\* the loop of parseHeading from one level on
parseHeadingFrom(html, level) ==
    IF level > 6 THEN NoMatch
    ELSE Only({ IF ~m.found THEN parseHeadingFrom(html, level + 1)
                ELSE [found |-> TRUE,
                      beforeTextParas |-> textParagraphs(stripTags(m.before)),
                      nodes |-> <<HeadingParagraph(level, stripTags(m.inner))>>,
                      afterHtml |-> m.after] :
                m \in {extractTag(html, "h" \o NatToStr(level))} })

parseHeading(html) == parseHeadingFrom(html, 1)

\* the paragraphs of the items of a list: lines 174-183; the bullet
\* character U+2022 is written as the text \u2022
listParagraphs(inner, tag) ==
    Only({ [idx \in 1..Len(items) |->
               Paragraph((IF tag = "ul" THEN "\\u2022 " ELSE NatToStr(idx) \o ". ")
                         \o stripTags(items[idx].inner))] :
           items \in { execAll(h[1], h[2], {"<li"}, {"</li>"}, 1) : h \in {withLower(inner)} } })

RECURSIVE parseListFrom(_, _)
\* the loop of parseList over the kinds still to try
parseListFrom(html, kinds) ==
    IF kinds = <<>> THEN NoMatch
    ELSE Only({ IF ~m.found THEN parseListFrom(html, Tail(kinds))
                ELSE [found |-> TRUE,
                      beforeTextParas |-> textParagraphs(stripTags(m.before)),
                      nodes |-> listParagraphs(m.inner, Head(kinds)),
                      afterHtml |-> m.after] :
                m \in {extractTag(html, Head(kinds))} })

parseList(html) == parseListFrom(html, <<"ul", "ol">>)

\* mime.includes(part)
Includes(s, part) == indexOf(s, part, 1) > 0

\* dataUri.match(/^data:([^;]+);base64,(.+)$/): the mime type of a data
\* URI, no match for any other text
decodeDataUri(dataUri) ==
    Only({ IF /\ StartsWithAt(dataUri, "data:", 1)
              /\ semi >= 7
              /\ StartsWithAt(dataUri, ";base64,", semi)
              /\ From(dataUri, semi + 8) # ""
              /\ ~Includes(From(dataUri, semi + 8), "\n")
              /\ ~Includes(From(dataUri, semi + 8), "\r")
           THEN [found |-> TRUE, mime |-> SubSeq(dataUri, 6, semi - 1)]
           ELSE NoMatch :
           semi \in {indexOf(dataUri, ";", 6)} })

\* lines 210-218
imgTypeOf(mime) ==
    IF Includes(mime, "png") THEN "png"
    ELSE IF Includes(mime, "jpeg") \/ Includes(mime, "jpg") THEN "jpg"
    ELSE IF Includes(mime, "gif") THEN "gif"
    ELSE IF Includes(mime, "bmp") THEN "bmp"
    ELSE "png"

IsQuote(c) == c \in {"\"", "'"}

\* the positions of src= at which /<img[^>]*src=["']([^"']+)["'][^>]*>/i
\* matches when it starts at position at
imgSrcPositions(html, lc, at) ==
    {p \in (at + 4)..Len(lc) :
        /\ StartsWithAt(lc, "src=", p)
        /\ ~Includes(SubSeq(lc, at + 4, p - 1), ">")
        /\ IsQuote(Ch(lc, p + 4))
        /\ \E q \in {firstOf(lc, {"\"", "'"}, p + 5)} :
              q >= p + 6 /\ indexOf(lc, ">", q + 1) > 0}

RECURSIVE imgMatchFrom(_, _, _)
\* html.match(imgRegex): the leftmost start, and from it the longest
\* [^>]* before src=
imgMatchFrom(html, lc, from) ==
    Only({ IF at = 0 THEN NoMatch ELSE
      Only({ IF srcs = {} THEN imgMatchFrom(html, lc, at + 1) ELSE
        Only({ [found |-> TRUE, index |-> at, src |-> SubSeq(html, p + 5, q - 1),
                before |-> SubSeq(html, 1, at - 1),
                after |-> From(html, indexOf(lc, ">", q + 1) + 1)] :
               p \in {CHOOSE a \in srcs : \A b \in srcs : b <= a},
               q \in {firstOf(lc, {"\"", "'"}, (CHOOSE a \in srcs : \A b \in srcs : b <= a) + 5)} }) :
             srcs \in {imgSrcPositions(html, lc, at)} }) :
           at \in {indexOf(lc, "<img", from)} })

parseImage(html) ==
    Only({ IF ~m.found THEN NoMatch
           ELSE [found |-> TRUE,
                 beforeTextParas |-> textParagraphs(stripTags(m.before)),
                 nodes |-> Only({ IF decoded.found
                                  THEN <<ImageParagraph(imgTypeOf(decoded.mime))>>
                                  ELSE <<Paragraph("[Image]")>> :
                                  decoded \in {decodeDataUri(m.src)} }),
                 afterHtml |-> m.after] :
           m \in { imgMatchFrom(h[1], h[2], 1) : h \in {withLower(html)} } })

\* the length of the name that /(table|h\d|ul|ol|li|p|div|br|img)/ matches
\* at i, 0 when none
knownNameAt(lc, i) ==
    IF StartsWithAt(lc, "table", i) THEN 5
    ELSE IF Ch(lc, i) = "h" /\ IsDigit(Ch(lc, i + 1)) THEN 2
    ELSE IF \E n \in {"ul", "ol", "li", "br"} : StartsWithAt(lc, n, i) THEN 2
    ELSE IF StartsWithAt(lc, "p", i) THEN 1
    ELSE IF StartsWithAt(lc, "div", i) \/ StartsWithAt(lc, "img", i) THEN 3
    ELSE 0

\* the length of the match of
\* /<\/?(table|h\d|ul|ol|li|p|div|br|img)[^>]*>/i at i, 0 when none
knownTagAt(lc, i) ==
    Only({ IF Ch(lc, i) = "<" /\ knownNameAt(lc, name) > 0
              /\ indexOf(lc, ">", name + knownNameAt(lc, name)) > 0
           THEN indexOf(lc, ">", name + knownNameAt(lc, name)) - i + 1
           ELSE 0 :
           name \in {IF StartsWithAt(lc, "</", i) THEN i + 2 ELSE i + 1} })

RECURSIVE searchKnownTag(_, _)
\* remaining.search(...) + 1: the first position of a known tag, 0 for -1
searchKnownTag(lc, i) ==
    Only({ IF at = 0 THEN 0
           ELSE IF knownTagAt(lc, at) > 0 THEN at
           ELSE searchKnownTag(lc, at + 1) :
           at \in {indexOf(lc, "<", i)} })

WordChars ==
    {Ch("abcdefghijklmnopqrstuvwxyzABCDEFGHIJKLMNOPQRSTUVWXYZ0123456789_", k) :
        k \in 1..Len("abcdefghijklmnopqrstuvwxyzABCDEFGHIJKLMNOPQRSTUVWXYZ0123456789_")}

\* /^<br\b/i.test(tag)
IsBr(tag) == StartsWithAt(Lower(tag), "<br", 1) /\ Ch(tag, 4) \notin WordChars /\ Len(tag) > 3

\* extractTag(remaining, 'p') || extractTag(remaining, 'div')
pOrDiv(remaining) ==
    Only({ IF p.found THEN p ELSE extractTag(remaining, "div") : p \in {extractTag(remaining, "p")} })

\* a head chunk that drops one character whatever the input starts with
headChunkDropChar(paras, remaining) ==
    [children |-> paras, remaining |-> From(remaining, 2), branch |-> "char"]

\* lines 291-315: remaining starts with a known tag
headChunk(paras, remaining) ==
    Only({ IF block.found
           THEN [children |-> paras \o textParagraphs(stripTags(block.before))
                              \o Only({ IF innerText # "" THEN <<Paragraph(innerText)>> ELSE <<>> :
                                        innerText \in {stripTags(block.inner)} }),
                 remaining |-> block.after, branch |-> "block"]
           ELSE IF len > 0
           THEN [children |-> paras \o (IF IsBr(SubSeq(remaining, 1, len))
                                        THEN <<Paragraph("")>> ELSE <<>>),
                 remaining |-> From(remaining, len + 1), branch |-> "tag"]
           ELSE [children |-> paras, remaining |-> From(remaining, 2), branch |-> "char"] :
           block \in {pOrDiv(remaining)}, len \in {knownTagAt(Lower(remaining), 1)} })

\* lines 273-316: plain text up to the next known tag
fallbackChunk(remaining) ==
    Only({ IF nextTagIdx = 0
           THEN [children |-> textParagraphs(stripTags(remaining)), remaining |-> "",
                 branch |-> "text"]
           ELSE Only({ headChunk(paras, rest) :
                       paras \in {textParagraphs(stripTags(SubSeq(remaining, 1, nextTagIdx - 1)))},
                       rest \in {From(remaining, nextTagIdx)} }) :
           nextTagIdx \in { searchKnownTag(lc, 1) : lc \in {Lower(remaining)} } })

\* the nodes of the element pushed before the paragraphs of the text that
\* precedes it
takenNodesFirst(parsed, branch) ==
    [children |-> parsed.nodes \o parsed.beforeTextParas, remaining |-> parsed.afterHtml,
     branch |-> branch]

\* what a parser that matched hands to the loop
taken(parsed, branch) ==
    [children |-> parsed.beforeTextParas \o parsed.nodes, remaining |-> parsed.afterHtml,
     branch |-> branch]

\* the candidates tried in the order heading, table, list, image, plain
\* text
convertChunkHeadingFirst(remaining) ==
    Only({ IF h.found THEN taken(h, "heading") ELSE
      Only({ IF t.found THEN taken(t, "table") ELSE
        Only({ IF l.found THEN taken(l, "list") ELSE
          Only({ IF i.found THEN taken(i, "image") ELSE fallbackChunk(remaining) :
                 i \in {parseImage(remaining)} }) :
               l \in {parseList(remaining)} }) :
             t \in {parseTable(remaining)} }) :
           h \in {parseHeading(remaining)} })

\* lines 239-316: table, heading, list, image, then plain text
convertChunk(remaining) ==
    Only({ IF t.found THEN taken(t, "table") ELSE
      Only({ IF h.found THEN taken(h, "heading") ELSE
        Only({ IF l.found THEN taken(l, "list") ELSE
          Only({ IF i.found THEN taken(i, "image") ELSE fallbackChunk(remaining) :
                 i \in {parseImage(remaining)} }) :
               l \in {parseList(remaining)} }) :
             h \in {parseHeading(remaining)} }) :
           t \in {parseTable(remaining)} })

MAX_ITERATIONS == 10000

\* a loop body that does nothing
loopBodyIdle(remaining, iterations) ==
    [brk |-> FALSE, children |-> <<>>, remaining |-> remaining, iterations |-> iterations,
     branch |-> "none"]

\* one pass through the body of the while loop, lines 235-316
loopBody(remaining, iterations) ==
    IF iterations + 1 > MAX_ITERATIONS
    THEN [brk |-> TRUE, children |-> <<>>, remaining |-> remaining, iterations |-> iterations + 1,
          branch |-> "break"]
    ELSE Only({ [brk |-> FALSE, children |-> c.children, remaining |-> c.remaining,
                 iterations |-> iterations + 1, branch |-> c.branch] :
                c \in {convertChunk(remaining)} })

RECURSIVE whileLoop(_, _, _)
\* while (remaining && remaining.length > 0) { ... }
whileLoop(remaining, children, iterations) ==
    IF remaining = "" THEN children
    ELSE Only({ IF r.brk THEN children
                ELSE whileLoop(r.remaining, children \o r.children, r.iterations) :
                r \in {loopBody(remaining, iterations)} })

htmlToDocxChildren(html) == whileLoop(html, <<>>, 0)

RECURSIVE removeStyleBlocks(_, _, _)
\* html.replace(/<style[^>]*>[\s\S]*?<\/style>/gi, ''), from i on
removeStyleBlocks(s, lc, i) ==
    Only({ IF at = 0 THEN From(s, i) ELSE
      Only({ IF gt = 0 THEN From(s, i) ELSE
        Only({ IF closeIdx = 0 THEN From(s, i)
               ELSE SubSeq(s, i, at - 1) \o removeStyleBlocks(s, lc, closeIdx + Len("</style>")) :
               closeIdx \in {indexOf(lc, "</style>", gt + 1)} }) :
             gt \in {indexOf(lc, ">", at + Len("<style"))} }) :
           at \in {indexOf(lc, "<style", i)} })

\* the html with its style blocks left in
sanitizeHtmlKeep(html) == html

\* line 329
sanitizeHtml(html) == Only({ removeStyleBlocks(h[1], h[2], 1) : h \in {withLower(html)} })

\* !(!fileName || !/^[\w\-. ]+$/.test(fileName))
IsValidFileName(fileName) ==
    /\ fileName # ""
    /\ \A i \in 1..Len(fileName) : Ch(fileName, i) \in WordChars \cup {"-", ".", " "}

\* the children of the section when the section takes the converter's
\* children as they are
sectionChildrenAsIs(children, sanitizedHtml) == children

\* line 349
sectionChildren(children, sanitizedHtml) ==
    IF Len(children) > 0 THEN children ELSE <<Paragraph(stripTags(sanitizedHtml))>>

\* lines 362-380: the children of the plain text document
plainTextChildren(sanitizedHtml) == <<Paragraph(stripTags(sanitizedHtml))>>

\* file.uri of new File(new Directory(Paths.document), `${fileName}.docx`)
DocxUri(fileName) == "file:///document/" \o fileName \o ".docx"

DocxInvalidFileName == [error |-> "Invalid fileName"]
DocxPackError == [error |-> "Packer.toBase64String rejected"]
DocxWriteError == [error |-> "writeAsStringAsync rejected"]
DocxConversionError == [error |-> "htmlToDocxChildren or new Document threw"]

\* ------------------------------------------------------------------ PDF emitter

\* pdfGenerator.ts stripHtmlToPlainText: closing block tags and <br> become
\* line feeds, every other tag is removed; nothing is collapsed or trimmed
stripHtmlToPlainText(html) ==
    Only({ Only({ removeTags(withNewlines, 1) :
                  withNewlines \in { Only({ replaceBr(b[1], b[2], 1) :
                                            b \in {withLower(replaceClosingTags(h[1], h[2], 1))} }) } }) :
           h \in {withLower(html)} })

\* `${FileSystem.documentDirectory}${fileName}.pdf`
PdfDesiredUri(fileName) == "file:///document/" \o fileName \o ".pdf"

\* the uri printToFileAsync gives: a file in the cache directory
PdfPrintedUri == "file:///cache/Print/printed.pdf"

\* the bytes printToFileAsync gives for an html
PrintedPdf(html) == [pdf |-> "printed", html |-> html]

\* the bytes of the one page with the plain text drawn on it
PlainTextPdf(plainText) == [pdf |-> "text", text |-> plainText, font |-> "Helvetica", size |-> 12]

PdfPrintError == [error |-> "printToFileAsync rejected"]
PdfRenderError == [error |-> "pdf-lib threw"]
PdfWriteError == [error |-> "writeAsStringAsync rejected"]

Returned(fileUri, base64) == [status |-> "returned", fileUri |-> fileUri, base64 |-> base64]
Rejected(e) == [status |-> "rejected", error |-> e]

\* a failed rename when it fails the whole call
renameFailedRejects(uri, base64) == Rejected([error |-> "moveAsync rejected"])

\* lines 35-38: catch (renameErr)
renameFailed(uri, base64) == Returned(uri, base64)

\* ------------------------------------------------------------------ deep equality

RECURSIVE Unfold(_, _, _)
\* The value with its references replaced by the containers they denote, to
\* depth d: two values are deep-equal (to depth d) iff their unfoldings are equal.
Unfold(h, x, d) ==
    LET c == Deref(h, x)
    IN  IF x.t \notin {"arr", "obj", "ref"} THEN x
        ELSE IF d = 0 THEN [t |-> "cut"]
        ELSE IF c.t = "arr" THEN Arr([i \in 1..Len(c.e) |-> Unfold(h, c.e[i], d - 1)])
        ELSE Obj(c.k, [i \in 1..Len(c.v) |-> Unfold(h, c.v[i], d - 1)])

DeepEqual(h, x, y) == Unfold(h, x, UnfoldDepth) = Unfold(h, y, UnfoldDepth)

\* ------------------------------------------------------------------ normalizer runs

NoResult == [val |-> Undef, seen |-> {}, err |-> FALSE]

\* Values without shared or cyclic parts: literals all the way down.
TreeLeaves ==
    { Num(1), Null, Bool(TRUE), Str("a"), Str("[1]"), Str("[1"), Str(" [ ] "),
      Str("{\"k\":\"[2]\"}"), Str("\"[1]\""), Str("[\"{}\",\"a\"]"),
      Str("{\"constructor\":1}") }

TreeValues ==
    TreeLeaves
    \cup { Arr(<<x>>) : x \in TreeLeaves }
    \cup { Obj(<<"a", "b">>, <<x, Arr(<<y>>)>>) : x \in {Num(1), Str("[1]")}, y \in TreeLeaves }
    \cup { Obj(<<"constructor">>, <<x>>) : x \in {Num(1)} }

\* Heaps of two containers that may refer to themselves and to each other.
Addrs == {1, 2}
HeapElems == {Str("[1]"), Num(1), Ref(1), Ref(2)}
HeapCells ==
    { Arr(<<x>>) : x \in HeapElems }
    \cup { Arr(<<x, y>>) : x \in HeapElems, y \in HeapElems }
    \cup { Obj(<<"s">>, <<x>>) : x \in HeapElems }
    \cup { Obj(<<"a", "b">>, <<x, y>>) : x \in HeapElems, y \in HeapElems }

NoHeap == [a \in Addrs |-> Arr(<<>>)]

IdleNorm ==
    nHeap = NoHeap /\ nInput = Undef /\ nPc = "idle" /\ nOut = NoResult /\ nPrev = NoResult

IdleSchema ==
    sSchema = <<>> /\ sPc = "idle" /\ sOut = <<>>

IdlePath ==
    pData = Undef /\ pPath = "" /\ pPc = "idle" /\ pOut = Undef

IdleRender ==
    /\ rConfig = [blocks |-> <<>>] /\ rData = Undef
    /\ rPc = "idle" /\ rOut = [err |-> FALSE, html |-> ""]

\* The generate calls of one mounted hook; two of them can overlap.
CallIds == {1, 2}
NoCall == [none |-> TRUE]

IdleGen ==
    /\ gPc = [c \in CallIds |-> "idle"]
    /\ gIn = [c \in CallIds |-> NoCall]
    /\ gHtml = [c \in CallIds |-> ""]
    /\ gErr = [c \in CallIds |-> NoError]
    /\ gBase64 = [c \in CallIds |-> FALSE]
    /\ loading = FALSE
    /\ error = NoError
    /\ bucket = {}
    /\ dbRows = {}
    /\ shared = {}

IdleDisplay ==
    dValue = Undef /\ dPc = "idle" /\ dOut = ""

IdleConv ==
    cHtml = "" /\ cRemaining = "" /\ cChildren = <<>> /\ cIter = 0 /\ cPc = "idle"
    /\ cBranch = "none"

IdleDocx ==
    /\ xHtml = "" /\ xName = "" /\ xSanitized = "" /\ xConv = "none" /\ xNodes = <<>>
    /\ xPc = "idle" /\ xOut = [status |-> "pending"]

IdlePdf ==
    /\ pdfHtml = "" /\ pdfName = "" /\ pdfFiles = {} /\ pdfPrint = "none" /\ pdfMove = "none"
    /\ pdfPc = "idle" /\ pdfOut = [status |-> "pending"]

IdleScreen ==
    /\ hPc = [c \in CallIds |-> "idle"]
    /\ hCaptured = [c \in CallIds |-> NoError]
    /\ alerts = {}

IdleTrip ==
    /\ tValue = "" /\ tKind = "none" /\ tHtml = "" /\ tNodes = <<>> /\ tPc = "idle"

InitNorm ==
    /\ IdlePath /\ IdleSchema /\ IdleRender /\ IdleGen /\ IdleDisplay /\ IdleConv /\ IdleDocx /\ IdlePdf /\ IdleScreen /\ IdleTrip
    /\ \/ nHeap = NoHeap /\ nInput \in TreeValues
       \/ nHeap \in [Addrs -> HeapCells] /\ nInput = Ref(1)
    /\ nPc = "start"
    /\ nOut = NoResult
    /\ nPrev = NoResult

\* const n = normalizeDataForRendering(x)
NormalizeOnce ==
    /\ nPc = "start"
    /\ nOut' = normalizeDataForRendering(nHeap, nInput)
    /\ nPc' = "once"
    /\ UNCHANGED <<nHeap, nInput, nPrev, pathVars, schemaVars, renderVars, genVars, displayVars, convVars, docxVars, pdfVars, screenVars, tripVars>>

\* normalizeDataForRendering(n), as generate, buildDocumentHTML and
\* renderBlocksFromTemplateConfig do one after the other
NormalizeAgain ==
    /\ nPc = "once"
    /\ ~nOut.err
    /\ nPrev' = nOut
    /\ nOut' = normalizeDataForRendering(nHeap, nOut.val)
    /\ nPc' = "twice"
    /\ UNCHANGED <<nHeap, nInput, pathVars, schemaVars, renderVars, genVars, displayVars, convVars, docxVars, pdfVars, screenVars, tripVars>>

\* normalizeDataForRendering(JSON.stringify(x)) for an object or array x
NormalizeViaJson ==
    /\ nPc = "once"
    /\ ~nOut.err
    /\ IsArray(nHeap, nInput) \/ IsObject(nHeap, nInput)
    /\ ~JsonStringify(nHeap, nInput).err
    /\ nPrev' = nOut
    /\ nOut' = normalizeDataForRendering(nHeap, Str(JsonStringify(nHeap, nInput).s))
    /\ nPc' = "viaJson"
    /\ UNCHANGED <<nHeap, nInput, pathVars, schemaVars, renderVars, genVars, displayVars, convVars, docxVars, pdfVars, screenVars, tripVars>>

NextNorm == NormalizeOnce \/ NormalizeAgain \/ NormalizeViaJson

SpecNorm == InitNorm /\ [][NextNorm]_vars

\* ------------------------------------------------------------------ path resolver runs

\* Segments a path is made of; the empty segment gives "", "a..b", ".a".
MaxSegs == 3
PathSegs == {"a", "b", "n", "e", "list", "0", "1", "length", ""}

PathsOfLen[n \in 1..(MaxSegs + 1)] ==
    IF n = 1 THEN PathSegs
    ELSE {p \o "." \o q : p \in PathsOfLen[n - 1], q \in PathSegs}

Paths == UNION {PathsOfLen[n] : n \in 1..MaxSegs}

PathData ==
    { Obj(<<"a", "n", "e", "list">>,
          <<Obj(<<"b", "a">>, <<Obj(<<"a">>, <<Str("deep")>>), Num(0)>>),
            Null, Str(""), Arr(<<Obj(<<"a">>, <<Num(7)>>), Str("xy")>>)>>),
      Obj(<<"", "a", "b">>, <<Num(5), Str("leaf"), Bool(FALSE)>>),
      Obj(<<>>, <<>>) }

InitPath ==
    /\ IdleNorm /\ IdleSchema /\ IdleRender /\ IdleGen /\ IdleDisplay /\ IdleConv /\ IdleDocx /\ IdlePdf /\ IdleScreen /\ IdleTrip
    /\ pData \in PathData
    /\ pPath \in Paths
    /\ pPc = "start"
    /\ pOut = Undef

\* getValueAtPath(data, path) in the renderer
ResolveRenderer ==
    /\ pPc = "start"
    /\ pOut' = getValueAtPath(NoHeap, pData, Str(pPath))
    /\ pPc' = "renderer"
    /\ UNCHANGED <<pData, pPath, normVars, schemaVars, renderVars, genVars, displayVars, convVars, docxVars, pdfVars, screenVars, tripVars>>

\* getValueAtPath(data, path) in the generator hook
ResolveHook ==
    /\ pPc = "start"
    /\ pOut' = getValueAtPathHook(NoHeap, pData, pPath)
    /\ pPc' = "hook"
    /\ UNCHANGED <<pData, pPath, normVars, schemaVars, renderVars, genVars, displayVars, convVars, docxVars, pdfVars, screenVars, tripVars>>

NextPath == ResolveRenderer \/ ResolveHook

SpecPath == InitPath /\ [][NextPath]_vars

\* ------------------------------------------------------------------ schema compiler runs

Prop(type, title) ==
    [type |-> type, title |-> title, hasItems |-> FALSE, items |-> <<>>,
     hasProps |-> FALSE, props |-> <<>>]

ArrayOf(title, items) ==
    [type |-> "array", title |-> title, hasItems |-> TRUE, items |-> items,
     hasProps |-> FALSE, props |-> <<>>]

ObjectOf(title, props) ==
    [type |-> "object", title |-> title, hasItems |-> FALSE, items |-> <<>>,
     hasProps |-> TRUE, props |-> props]

Field(key, prop) == [key |-> key, prop |-> prop]

\* The fields schemas are made of: primitives with and without a title,
\* arrays of objects, of primitives and without items, objects nested to
\* depth two, an object with empty properties, an object without
\* properties and a field of a type the compiler does not know.
FieldPool ==
    { Field("name", Prop("string", "Name")),
      Field("first_name", Prop("string", "")),
      Field("qty", Prop("integer", "")),
      Field("items", ArrayOf("", ObjectOf("", <<Field("sku", Prop("string", "")),
                                               Field("qty", Prop("number", ""))>>))),
      Field("tags", ArrayOf("Tags", Prop("string", ""))),
      Field("notes", Prop("array", "")),
      Field("address", ObjectOf("", <<Field("street", Prop("string", "")),
                                      Field("geo", ObjectOf("Geo", <<Field("lat", Prop("number", "")),
                                                                     Field("marks", ArrayOf("", Prop("string", "")))>>)),
                                      Field("zip", Prop("string", "Zip"))>>)),
      Field("extra", ObjectOf("", <<>>)),
      Field("blob", Prop("object", "")),
      Field("nothing", Prop("null", "")) }

\* Most fields a schema declares at its top level.
MaxFields == 3

DistinctKeys(fields) ==
    \A i, j \in 1..Len(fields) : i # j => fields[i].key # fields[j].key

FieldLists ==
    UNION { {f \in [1..n -> FieldPool] : DistinctKeys(f)} : n \in 0..MaxFields }

\* A schema with the given properties, and the schema that has no
\* `properties` member.
Schemas ==
    { ObjectOf("", f) : f \in FieldLists } \cup { Prop("object", "") }

InitSchema ==
    /\ IdleNorm /\ IdlePath /\ IdleRender /\ IdleGen /\ IdleDisplay /\ IdleConv /\ IdleDocx /\ IdlePdf /\ IdleScreen /\ IdleTrip
    /\ sSchema \in Schemas
    /\ sPc = "start"
    /\ sOut = <<>>

\* const config = schemaToTemplateConfig(schema)
Compile ==
    /\ sPc = "start"
    /\ sOut' = schemaToTemplateConfig(sSchema)
    /\ sPc' = "compiled"
    /\ UNCHANGED <<sSchema, normVars, pathVars, renderVars, genVars, displayVars, convVars, docxVars, pdfVars, screenVars, tripVars>>

NextSchema == Compile

SpecSchema == InitSchema /\ [][NextSchema]_vars

\* ------------------------------------------------------------------ renderer runs

\* Longest text a data value holds.
MaxText == 2

\* The characters data texts are made of: the five escapeHtml replaces and
\* one it leaves alone.
DataChars == "<>&\"'x"

RECURSIVE TextsOfLen(_)
TextsOfLen(n) ==
    IF n = 0 THEN {""}
    ELSE {t \o Ch(DataChars, i) : t \in TextsOfLen(n - 1), i \in 1..Len(DataChars)}

DataTexts == UNION {TextsOfLen(n) : n \in 0..MaxText}

\* the texts put inside containers: empty or one character
ShortTexts == TextsOfLen(0) \cup TextsOfLen(1)

\* The values a field holds: a text, an array with a text, an object with
\* a text, an array of row objects, a JSON-encoded array and the other
\* primitives.
RenderValues ==
    {Str(t) : t \in DataTexts}
    \cup {Arr(<<Str(t), Null>>) : t \in ShortTexts}
    \cup {Obj(<<"k">>, <<Str(t)>>) : t \in ShortTexts}
    \cup {Arr(<<Obj(<<"v">>, <<Str(t)>>)>>) : t \in ShortTexts}
    \cup {Str("[\"" \o t \o "\"]") : t \in ShortTexts}
    \cup {Num(7), Bool(TRUE), Null}

\* {v: x, o: {v: x}}
RenderData == {Obj(<<"v", "o">>, <<x, Obj(<<"v">>, <<x>>)>>) : x \in RenderValues}

BoundParagraph == [type |-> "paragraph", bind |-> [path |-> "v"]]

KvRows ==
    <<[label |-> "A&B", path |-> "v"], [label |-> "Nested", bind |-> [path |-> "o.v"]],
      [label |-> "Unbound"]>>

\* Blocks of every type, bound through bind.path, path, dataPath,
\* sourcePath and {{path}}, to present and to missing paths.
RenderBlocks ==
    { [type |-> "heading", text |-> "Dear {{v}}"],
      [type |-> "heading", text |-> "{{ o.v }} and {{gone}}", level |-> 1],
      [type |-> "heading", text |-> "{{v}}", level |-> 9,
       style |-> <<[k |-> "fontSize", v |-> "14pt"]>>],
      [type |-> "paragraph", text |-> "Total: {{v}} due"],
      BoundParagraph,
      [type |-> "paragraph", bind |-> [path |-> "o.v"],
       style |-> <<[k |-> "marginTop", v |-> "4px"], [k |-> "color", v |-> ""]>>],
      [type |-> "paragraph", bind |-> [path |-> "gone.v"]],
      [type |-> "paragraph", bind |-> [path |-> "v.k"]],
      [type |-> "paragraph", text |-> "{{v}}"],
      [type |-> "paragraph"],
      [type |-> "line", parts |-> <<[text |-> "Name:"], [path |-> "v"]>>],
      [type |-> "line", parts |-> <<[bind |-> [path |-> "o.v"]], [none |-> TRUE]>>],
      [type |-> "list", dataPath |-> "v"],
      [type |-> "list", sourcePath |-> "o.v", ordered |-> TRUE],
      [type |-> "list", items |-> <<[lit |-> "Item {{v}}"], [path |-> "v"], [text |-> "last"]>>],
      [type |-> "table", columns |-> <<[header |-> "V", path |-> "v"], [header |-> "O", path |-> "o.v"]>>],
      [type |-> "table", columns |-> <<[header |-> "<V>", path |-> "v"]>>, dataPath |-> "v"],
      [type |-> "table", columns |-> <<[header |-> "K", path |-> "k"]>>, sourcePath |-> "o.v",
       cellStyle |-> <<[k |-> "padding", v |-> "2px"]>>],
      [type |-> "keyValueTable", rows |-> KvRows],
      [type |-> "keyValueList", rows |-> KvRows],
      [type |-> "divider"],
      [type |-> "spacer"],
      [type |-> "spacer", size |-> 4],
      [type |-> "signature", name |-> [bind |-> [path |-> "v"]], title |-> [lit |-> "v"],
       showRegards |-> TRUE],
      [type |-> "signature", name |-> [lit |-> "Jo"], title |-> [bind |-> [none |-> TRUE]]],
      [type |-> "image"] }

RenderStyles ==
    [ paragraph |-> <<[k |-> "margin", v |-> "0 0 12px"]>>,
      h1 |-> <<[k |-> "fontWeight", v |-> "700"]>>,
      heading |-> <<[k |-> "margin", v |-> "12px 0 6px"]>>,
      listItem |-> <<>>,
      th |-> <<[k |-> "fontWeight", v |-> "600"]>>,
      kvLabel |-> <<[k |-> "color", v |-> "#374151"]>>,
      page |-> <<[k |-> "padding", v |-> "8px"]>> ]

\* One block alone, with and without config.styles, and two configs of
\* several blocks.
RenderConfigs ==
    {[blocks |-> <<b>>] : b \in RenderBlocks}
    \cup {[blocks |-> <<b>>, styles |-> RenderStyles] :
            b \in {x \in RenderBlocks : x.type \in {"heading", "paragraph", "list", "table", "keyValueList"}}}
    \cup {[blocks |-> <<[type |-> "heading", text |-> "Dear {{v}}"], [type |-> "image"], BoundParagraph>>],
           [blocks |-> <<[type |-> "image"], [type |-> "divider"], [type |-> "video", text |-> "{{v}}"],
                         BoundParagraph, [type |-> "chart"]>>],
           [styles |-> RenderStyles]}

InitRender ==
    /\ IdleNorm /\ IdlePath /\ IdleSchema /\ IdleGen /\ IdleDisplay /\ IdleConv /\ IdleDocx /\ IdlePdf /\ IdleScreen /\ IdleTrip
    /\ rConfig \in RenderConfigs
    /\ rData \in RenderData
    /\ rPc = "start"
    /\ rOut = [err |-> FALSE, html |-> ""]

\* const html = renderBlocksFromTemplateConfig(config, data)
Render ==
    /\ rPc = "start"
    /\ rOut' = renderBlocksFromTemplateConfig(NoHeap, rConfig, rData)
    /\ rPc' = "rendered"
    /\ UNCHANGED <<rConfig, rData, normVars, pathVars, schemaVars, genVars, displayVars, convVars, docxVars, pdfVars, screenVars, tripVars>>

NextRender == Render

SpecRender == InitRender /\ [][NextRender]_vars

\* ------------------------------------------------------------------ display runs

\* the longest array shown
MaxElems == 2

\* elements that are not objects
DisplayPrimitives == {Str("a"), Str(""), Num(7), Bool(TRUE), Null, Undef}

\* elements that are objects or arrays
DisplayObjects ==
    {Obj(<<"a">>, <<Num(1)>>), Obj(<<"b", "c">>, <<Str("x"), Null>>), Arr(<<Num(1)>>)}

RECURSIVE ArraysOver(_, _)
\* the element lists of length n over pool
ArraysOver(pool, n) ==
    IF n = 0 THEN {<<>>}
    ELSE {<<x>> \o e : x \in pool, e \in ArraysOver(pool, n - 1)}

DisplayValues ==
    DisplayPrimitives
    \cup (DisplayObjects \ {Arr(<<Num(1)>>)})
    \cup {Obj(<<>>, <<>>), Obj(<<"o">>, <<Obj(<<"a">>, <<Num(1)>>)>>)}
    \cup {Arr(e) : e \in UNION {ArraysOver(DisplayPrimitives \cup DisplayObjects, n) : n \in 0..MaxElems}}

InitDisplay ==
    /\ IdleNorm /\ IdlePath /\ IdleSchema /\ IdleRender /\ IdleGen /\ IdleConv /\ IdleDocx /\ IdlePdf /\ IdleScreen /\ IdleTrip
    /\ dValue \in DisplayValues
    /\ dPc = "start"
    /\ dOut = ""

\* const text = valueToDisplay(value)
Display ==
    /\ dPc = "start"
    /\ dOut' = valueToDisplay(NoHeap, dValue)
    /\ dPc' = "shown"
    /\ UNCHANGED <<dValue, normVars, pathVars, schemaVars, renderVars, genVars, convVars, docxVars, pdfVars, screenVars, tripVars>>

NextDisplay == Display

SpecDisplay == InitDisplay /\ [][NextDisplay]_vars

\* ------------------------------------------------------------------ converter runs

\* the longest sequence of fragments an input is put together from
MaxTokens == 3

\* fragments of markup, whole and broken
ConvTokens == {"<p>", "</p>", "<table>", "<", ">", "a"}

RECURSIVE TokenTexts(_)
\* the texts made of n fragments
TokenTexts(n) ==
    IF n = 0 THEN {""}
    ELSE {t \o rest : t \in ConvTokens, rest \in TokenTexts(n - 1)}

\* inputs with unterminated, unmatched, unknown and nested tags
MalformedDocs ==
    {"<p>unterminated <table><tr><td>1", "<<<>></p><li>", "<pre>code</pre>",
     "<ul><li>a", "</div></div></ul>", "<x><y></y>", "<img src=", "<h1><h2></h1></h2>",
     "<table><table></table>", "<div><p></div></p>", "<br", "a<br>b<BR/>c<x>d</x>\n\n\n\ne",
     "<h2>T</h2><ul><li>a</li><li><b>b</b></li></ul><ol><li>c</li></ol>tail",
     "x<img alt=\"y\" src=\"data:image/jpeg;base64,AAAA\">y<img src='u.png'>"}

\* the most rows and the most cells in a row of a table given
MaxRows == 2
MaxCols == 2

TableStyles == {"plain", "sections", "attributes", "rich"}
TablePrefixes == {"", "<p>Hello</p>", "<h1>T</h1>", "<div>"}
TableSuffixes == {"", "tail", "</div>", "<h2>E</h2>"}

\* a document with one table: what precedes it, its rows and columns, how
\* it is written, what follows it
TableDocs ==
    [pre : TablePrefixes, rows : 1..MaxRows, cols : 1..MaxCols, style : TableStyles,
     post : TableSuffixes]

\* the HTML of one cell
CellHtml(style, r, c) ==
    CASE style = "plain" -> "<td>" \o NatToStr(r) \o NatToStr(c) \o "</td>"
      [] style = "sections" ->
            IF r = 1 THEN "<th>H" \o NatToStr(c) \o "</th>"
            ELSE "<td>" \o NatToStr(c) \o "</td>"
      [] style = "attributes" -> "<TD class=\"c\">" \o NatToStr(c) \o "</TD>\n"
      [] style = "rich" ->
            IF c = 1 THEN "<td></td>" ELSE "<td><p><b>x</b></p><br>y</td>"

\* the HTML of one row
RowHtml(style, r, cols) ==
    LET cells == Join([c \in 1..cols |-> CellHtml(style, r, c)], "")
    IN  CASE style = "sections" ->
               IF r = 1 THEN "<thead><tr>" \o cells \o "</tr></thead><tbody>"
               ELSE "<tr>" \o cells \o "</tr>"
          [] style = "attributes" -> "<TR id=\"r\">\n" \o cells \o "</TR>\n"
          [] OTHER -> "<tr>" \o cells \o "</tr>"

\* the HTML of a document with one table
TableDocHtml(d) ==
    LET body == Join([r \in 1..d.rows |-> RowHtml(d.style, r, d.cols)], "")
    IN  d.pre
        \o (CASE d.style = "sections" -> "<table>" \o body \o "</tbody></table>"
              [] d.style = "attributes" -> "<TABLE border=\"1\">\n" \o body \o "</TABLE>"
              [] OTHER -> "<table>" \o body \o "</table>")
        \o d.post

\* texts that precede an element, with the paragraphs they hold once tags
\* are stripped and the text is split on blank lines
PrecedingCases ==
    {[pre |-> "", paras |-> <<>>],
     [pre |-> "  \n ", paras |-> <<>>],
     [pre |-> "Hello", paras |-> <<"Hello">>],
     [pre |-> "<p>Hello</p>", paras |-> <<"Hello">>],
     [pre |-> "A\n\nB", paras |-> <<"A", "B">>],
     [pre |-> "<b>A</b>\n\n\n\n<i>B</i>", paras |-> <<"A", "B">>],
     [pre |-> "<p>A</p>\n<p>B</p>", paras |-> <<"A", "B">>],
     [pre |-> "<p>A</p><p>B</p>", paras |-> <<"A\nB">>],
     [pre |-> "A<br><br>B", paras |-> <<"A", "B">>],
     [pre |-> "<div>A</div>\n\n<div>B</div>\n\n<span>C</span>", paras |-> <<"A", "B", "C">>],
     [pre |-> "a < b", paras |-> <<"a < b">>]}

\* elements the converter extracts, with the nodes they give
ExtractedElements ==
    {[html |-> "<table><tr><td>1</td></tr></table>",
      nodes |-> <<Table(<<<<TableCell("1", FALSE)>>>>)>>],
     [html |-> "<h2>T</h2>", nodes |-> <<HeadingParagraph(2, "T")>>],
     [html |-> "<ul><li>x</li></ul>", nodes |-> <<Paragraph("\\u2022 x")>>],
     [html |-> "<ol><li>x</li><li>y</li></ol>", nodes |-> <<Paragraph("1. x"), Paragraph("2. y")>>],
     [html |-> "<img src=\"u.png\">", nodes |-> <<Paragraph("[Image]")>>]}

\* documents in which elements of several kinds occur, with what the
\* first pass through the loop takes: the branch, the children pushed and
\* the input that remains
PrecedenceCases ==
    {[html |-> "<h1>A</h1><table><tr><td>B</td></tr></table>C", branch |-> "table",
      children |-> <<Paragraph("A"), Table(<<<<TableCell("B", FALSE)>>>>)>>, remaining |-> "C"],
     [html |-> "<img src=\"x.png\"><h3>A</h3><ul><li>C</li></ul><table><tr><td>B</td></tr></table>",
      branch |-> "table",
      children |-> <<Paragraph("A\nC"), Table(<<<<TableCell("B", FALSE)>>>>)>>, remaining |-> ""],
     [html |-> "<ul><li>A</li></ul><h2>B</h2>C", branch |-> "heading",
      children |-> <<Paragraph("A"), HeadingParagraph(2, "B")>>, remaining |-> "C"],
     [html |-> "<h2>A</h2><h1>B</h1>", branch |-> "heading",
      children |-> <<Paragraph("A"), HeadingParagraph(1, "B")>>, remaining |-> ""],
     [html |-> "<h6>A</h6><h5>B</h5><h6>C</h6>", branch |-> "heading",
      children |-> <<Paragraph("A"), HeadingParagraph(5, "B")>>, remaining |-> "<h6>C</h6>"],
     [html |-> "<table><h1>A</h1><ul><li>B</li></ul>", branch |-> "heading",
      children |-> <<HeadingParagraph(1, "A")>>, remaining |-> "<ul><li>B</li></ul>"],
     [html |-> "<ol><li>A</li></ol><ul><li>B</li></ul>", branch |-> "list",
      children |-> <<Paragraph("A"), Paragraph("\\u2022 B")>>, remaining |-> ""],
     [html |-> "<img src=\"x.png\">A<ol><li>B</li></ol><img src=\"y.png\">", branch |-> "list",
      children |-> <<Paragraph("A"), Paragraph("1. B")>>, remaining |-> "<img src=\"y.png\">"],
     [html |-> "<p>A</p><img src=\"x.png\">B", branch |-> "image",
      children |-> <<Paragraph("A"), Paragraph("[Image]")>>, remaining |-> "B"],
     [html |-> "A<p>B</p>C<h1>D", branch |-> "block",
      children |-> <<Paragraph("A"), Paragraph("B")>>, remaining |-> "C<h1>D"]}

\* documents whose texts are the letters A to G, each once, with the
\* letters their nodes carry in the end
OrderDocs ==
    {[html |-> "A<h2>B</h2>C<ul><li>D</li></ul>E<table><tr><td>F</td></tr></table>G",
      letters |-> "ABCDEFG"],
     [html |-> "<p>A</p><img src=\"x.png\">B<ol><li>C</li><li>D</li></ol>", letters |-> "ABCD"],
     [html |-> "<table><tr><td>A</td><td>B</td></tr><tr><th>C</th></tr></table><h1>D</h1>",
      letters |-> "ABCD"],
     [html |-> "<div>A<p>B</p>C</div>D", letters |-> "ABCD"],
     [html |-> "<table>A<tr><td>B</td></tr>C</table>D", letters |-> "BD"],
     [html |-> "<div>A<div>B</div>C</div>D", letters |-> "ABCD"],
     [html |-> "<h2>A</h2>B<h1>C</h1>D<h2>E</h2>", letters |-> "ABCDE"],
     [html |-> "<ol><li>A</li></ol><ul>B<li>C</li></ul><img src='y'>D<br>E", letters |-> "ACDE"]}

ConvInputs ==
    UNION {TokenTexts(n) : n \in 0..MaxTokens}
    \cup {c.html : c \in OrderDocs}
    \cup {c.html : c \in PrecedenceCases}
    \cup MalformedDocs
    \cup {TableDocHtml(d) : d \in TableDocs}
    \cup {c.pre \o e.html : c \in PrecedingCases, e \in ExtractedElements}

RECURSIVE Repeat(_, _)
\* the text s written n times
Repeat(s, n) ==
    IF n = 0 THEN ""
    ELSE Only({ half \o half \o (IF n % 2 = 1 THEN s ELSE "") : half \in {Repeat(s, n \div 2)} })

\* what may follow a long run of line breaks
CapTails == {"<br>", "<br><br>", "<br>a<br>"}

\* the converter at the head of its loop: at the start of a call, and, for
\* an input of MAX_ITERATIONS - 1 line breaks and a tail, after one pass
\* for each of these line breaks, every one of which gave an empty
\* paragraph
ConvStarts ==
    {[html |-> h, remaining |-> h, children |-> <<>>, iterations |-> 0] : h \in ConvInputs}
    \cup {[html |-> Repeat("<br>", MAX_ITERATIONS - 1) \o t, remaining |-> t,
            children |-> [i \in 1..(MAX_ITERATIONS - 1) |-> Paragraph("")],
            iterations |-> MAX_ITERATIONS - 1] : t \in CapTails}

InitConv ==
    /\ IdleNorm /\ IdlePath /\ IdleSchema /\ IdleRender /\ IdleGen /\ IdleDisplay /\ IdleDocx /\ IdlePdf /\ IdleScreen /\ IdleTrip
    /\ \E s \in ConvStarts :
          /\ cHtml = s.html
          /\ cRemaining = s.remaining
          /\ cChildren = s.children
          /\ cIter = s.iterations
    /\ cPc = "loop"
    /\ cBranch = "none"

\* one pass through the while loop of htmlToDocxChildren
Iterate ==
    /\ cPc = "loop"
    /\ cRemaining # ""
    /\ \E r \in {loopBody(cRemaining, cIter)} :
          /\ cIter' = r.iterations
          /\ cChildren' = cChildren \o r.children
          /\ cRemaining' = r.remaining
          /\ cPc' = IF r.brk THEN "done" ELSE "loop"
          /\ cBranch' = r.branch
    /\ UNCHANGED <<cHtml, normVars, pathVars, schemaVars, renderVars, genVars, displayVars, docxVars, pdfVars, screenVars, tripVars>>

\* the loop condition fails: return children
Return ==
    /\ cPc = "loop"
    /\ cRemaining = ""
    /\ cPc' = "done"
    /\ UNCHANGED <<cHtml, cRemaining, cChildren, cIter, cBranch, normVars, pathVars, schemaVars,
                   renderVars, genVars, displayVars, docxVars, pdfVars, screenVars, tripVars>>

NextConv == Iterate \/ Return

SpecConv == InitConv /\ [][NextConv]_vars

\* the converter is a synchronous function: once called it runs on
SpecConvLive == SpecConv /\ WF_vars(NextConv)

\* ------------------------------------------------------------------ createDocx runs

\* inputs of createDocx with the plain text of each: the text left when
\* the style blocks and then the tags are taken out
DocxCases ==
    {[html |-> "", plain |-> ""],
     [html |-> "  \n", plain |-> ""],
     [html |-> "Hello", plain |-> "Hello"],
     [html |-> "<p></p>", plain |-> ""],
     [html |-> "<div><span></span></div>", plain |-> ""],
     [html |-> "<br>", plain |-> ""],
     [html |-> "<x>", plain |-> ""],
     [html |-> "<style>p{}</style>", plain |-> ""],
     [html |-> "<style>p{color:red}</style><p>Hi</p>", plain |-> "Hi"],
     [html |-> "a<style>b</style>c<STYLE type=\"t\">\nd</STYLE>e", plain |-> "ace"],
     [html |-> "A<style>y", plain |-> "Ay"],
     [html |-> "<h1>T</h1><table><tr><td>1</td></tr></table>", plain |-> "T\n1"],
     [html |-> "<style>Z{color:red}</style><p>Hi</p>", plain |-> "Hi"],
     [html |-> "<p>a</p><STYLE type=\"t\">\nZ > p {}\n</STYLE><h1>T</h1>", plain |-> "a\nT"],
     [html |-> "<style><p>Z</p></style>x", plain |-> "x"],
     [html |-> "<style>Z</style><table><tr><td>1</td></tr></table><style media=\"print\">Z</style>",
      plain |-> "1"],
     [html |-> "<div><style>td{Z}</style>b</div>", plain |-> "b"]}

DocxFileNames == {"report", "my file-1.v2", "", "a/b", "x*"}

InitDocx ==
    /\ IdleNorm /\ IdlePath /\ IdleSchema /\ IdleRender /\ IdleGen /\ IdleDisplay /\ IdleConv /\ IdlePdf /\ IdleScreen /\ IdleTrip
    /\ xHtml \in {c.html : c \in DocxCases}
    /\ xName \in DocxFileNames
    /\ xSanitized = ""
    /\ xConv = "none"
    /\ xNodes = <<>>
    /\ xPc = "start"
    /\ xOut = [status |-> "pending"]

DocxOthers ==
    <<normVars, pathVars, schemaVars, renderVars, genVars, displayVars, convVars, pdfVars,
      screenVars, tripVars>>

\* lines 324-329: the fileName check, then the style blocks are removed
Validate ==
    /\ xPc = "start"
    /\ IF IsValidFileName(xName)
       THEN /\ xSanitized' = sanitizeHtml(xHtml)
            /\ xPc' = "convert"
            /\ UNCHANGED xOut
       ELSE /\ xPc' = "rejected"
            /\ xOut' = [status |-> "rejected", error |-> DocxInvalidFileName]
            /\ UNCHANGED xSanitized
    /\ UNCHANGED <<xHtml, xName, xConv, xNodes, DocxOthers>>

\* lines 332-352: the conversion and the document; the constructors of the
\* docx package may throw
Convert ==
    /\ xPc = "convert"
    /\ \E threw \in BOOLEAN, children \in {htmlToDocxChildren(xSanitized)} :
          IF threw
          THEN xConv' = "threw" /\ xPc' = "caught" /\ UNCHANGED xNodes
          ELSE /\ xConv' = "ok"
               /\ xNodes' = sectionChildren(children, xSanitized)
               /\ xPc' = "pack"
    /\ UNCHANGED <<xHtml, xName, xSanitized, xOut, DocxOthers>>

\* line 354: await Packer.toBase64String(doc)
Pack ==
    /\ xPc = "pack"
    /\ \E rejected \in BOOLEAN : xPc' = IF rejected THEN "caught" ELSE "write"
    /\ UNCHANGED <<xHtml, xName, xSanitized, xConv, xNodes, xOut, DocxOthers>>

\* lines 355-358: the file is written and the result returned
WriteDocx ==
    /\ xPc = "write"
    /\ \E rejected \in BOOLEAN :
          IF rejected THEN xPc' = "caught" /\ UNCHANGED xOut
          ELSE /\ xPc' = "returned"
               /\ xOut' = [status |-> "returned", fileUri |-> DocxUri(xName)]
    /\ UNCHANGED <<xHtml, xName, xSanitized, xConv, xNodes, DocxOthers>>

\* lines 359-380: the catch block builds the plain text document
PlainText ==
    /\ xPc = "caught"
    /\ xNodes' = plainTextChildren(xSanitized)
    /\ xPc' = "packPlain"
    /\ UNCHANGED <<xHtml, xName, xSanitized, xConv, xOut, DocxOthers>>

\* line 381: a rejection here reaches the caller
PackPlain ==
    /\ xPc = "packPlain"
    /\ \E rejected \in BOOLEAN :
          IF rejected
          THEN xPc' = "rejected" /\ xOut' = [status |-> "rejected", error |-> DocxPackError]
          ELSE xPc' = "writePlain" /\ UNCHANGED xOut
    /\ UNCHANGED <<xHtml, xName, xSanitized, xConv, xNodes, DocxOthers>>

\* lines 382-385
WritePlain ==
    /\ xPc = "writePlain"
    /\ \E rejected \in BOOLEAN :
          IF rejected
          THEN xPc' = "rejected" /\ xOut' = [status |-> "rejected", error |-> DocxWriteError]
          ELSE /\ xPc' = "returned"
               /\ xOut' = [status |-> "returned", fileUri |-> DocxUri(xName)]
    /\ UNCHANGED <<xHtml, xName, xSanitized, xConv, xNodes, DocxOthers>>

NextDocx == Validate \/ Convert \/ Pack \/ WriteDocx \/ PlainText \/ PackPlain \/ WritePlain

SpecDocx == InitDocx /\ [][NextDocx]_vars

\* ------------------------------------------------------------------ createPdf runs

\* inputs of createPdf with the plain text of each
PdfCases ==
    {[html |-> "", plain |-> ""],
     [html |-> "Hello", plain |-> "Hello"],
     [html |-> "<p>Hi</p>", plain |-> "Hi\n"],
     [html |-> "<h1>T</h1><P>a<br/>b</P>", plain |-> "T\na\nb\n"],
     [html |-> "  <div><b>x</b></div>  ", plain |-> "  x\n  "],
     [html |-> "<ul><li>1</li>\n\n\n<li>2</li></ul>", plain |-> "1\n\n\n\n2\n"]}

PdfFileNames == {"report", "my file"}

InitPdf ==
    /\ IdleNorm /\ IdlePath /\ IdleSchema /\ IdleRender /\ IdleGen /\ IdleDisplay /\ IdleConv /\ IdleDocx /\ IdleScreen /\ IdleTrip
    /\ pdfHtml \in {c.html : c \in PdfCases}
    /\ pdfName \in PdfFileNames
    /\ pdfFiles \in {{}, {PdfDesiredUri(pdfName)}}
    /\ pdfPrint = "none"
    /\ pdfMove = "none"
    /\ pdfPc = "start"
    /\ pdfOut = [status |-> "pending"]

PdfOthers ==
    <<normVars, pathVars, schemaVars, renderVars, genVars, displayVars, convVars, docxVars,
      screenVars, tripVars>>

\* line 26: await Print.printToFileAsync({ html, base64: true })
PrintToFile ==
    /\ pdfPc = "start"
    /\ \E rejected \in BOOLEAN :
          IF rejected
          THEN pdfPrint' = "failed" /\ pdfPc' = "fallback" /\ UNCHANGED pdfFiles
          ELSE /\ pdfPrint' = "ok"
               /\ pdfFiles' = pdfFiles \cup {PdfPrintedUri}
               /\ pdfPc' = "delete"
    /\ UNCHANGED <<pdfHtml, pdfName, pdfMove, pdfOut, PdfOthers>>

\* line 32: try { await FileSystem.deleteAsync(desiredUri, { idempotent:
\* true }) } catch {}: whatever happens the call goes on
DeleteTarget ==
    /\ pdfPc = "delete"
    /\ \E rejected \in BOOLEAN :
          pdfFiles' = IF rejected THEN pdfFiles ELSE pdfFiles \ {PdfDesiredUri(pdfName)}
    /\ pdfPc' = "move"
    /\ UNCHANGED <<pdfHtml, pdfName, pdfPrint, pdfMove, pdfOut, PdfOthers>>

\* lines 33-38: the printed file is moved; when that fails the uri of the
\* printed file is returned
MoveToTarget ==
    /\ pdfPc = "move"
    /\ \E rejected \in BOOLEAN :
          IF rejected
          THEN /\ pdfMove' = "failed"
               /\ pdfOut' = renameFailed(PdfPrintedUri, PrintedPdf(pdfHtml))
               /\ UNCHANGED pdfFiles
          ELSE /\ pdfMove' = "ok"
               /\ pdfFiles' = (pdfFiles \ {PdfPrintedUri}) \cup {PdfDesiredUri(pdfName)}
               /\ pdfOut' = Returned(PdfDesiredUri(pdfName), PrintedPdf(pdfHtml))
    /\ pdfPc' = pdfOut'.status
    /\ UNCHANGED <<pdfHtml, pdfName, pdfPrint, PdfOthers>>

\* lines 44-58 and 66-69: the plain text is drawn on one page and saved;
\* what pdf-lib throws is thrown on to the caller
FallbackRender ==
    /\ pdfPc = "fallback"
    /\ \E threw \in BOOLEAN :
          IF threw
          THEN pdfPc' = "rejected" /\ pdfOut' = Rejected(PdfRenderError)
          ELSE pdfPc' = "fallbackWrite" /\ UNCHANGED pdfOut
    /\ UNCHANGED <<pdfHtml, pdfName, pdfFiles, pdfPrint, pdfMove, PdfOthers>>

\* lines 59-69: the bytes are written to the desired uri and returned; a
\* rejected write is thrown on to the caller
FallbackWrite ==
    /\ pdfPc = "fallbackWrite"
    /\ \E rejected \in BOOLEAN :
          IF rejected
          THEN pdfPc' = "rejected" /\ pdfOut' = Rejected(PdfWriteError) /\ UNCHANGED pdfFiles
          ELSE /\ pdfPc' = "returned"
               /\ pdfFiles' = pdfFiles \cup {PdfDesiredUri(pdfName)}
               /\ pdfOut' = Returned(PdfDesiredUri(pdfName), PlainTextPdf(stripHtmlToPlainText(pdfHtml)))
    /\ UNCHANGED <<pdfHtml, pdfName, pdfPrint, pdfMove, PdfOthers>>

NextPdf == PrintToFile \/ DeleteTarget \/ MoveToTarget \/ FallbackRender \/ FallbackWrite

SpecPdf == InitPdf /\ [][NextPdf]_vars

\* ------------------------------------------------------------------ render then convert runs

\* the longest data value
MaxValueLen == 2

\* the characters of the data values: a letter, a blank, and the five
\* characters escapeHtml rewrites
ValueChars == {"a", " ", "<", ">", "&", "\"", "'"}

RECURSIVE ValuesOfLen(_)
ValuesOfLen(n) ==
    IF n = 0 THEN {""} ELSE {ch \o rest : ch \in ValueChars, rest \in ValuesOfLen(n - 1)}

\* single-line string values
TripValues == UNION {ValuesOfLen(n) : n \in 0..MaxValueLen}

\* a config with one block bound to v, and the data that give v the value
TripConfig(kind) ==
    IF kind = "paragraph" THEN [blocks |-> <<BoundParagraph>>]
    ELSE [blocks |-> <<[type |-> "table", columns |-> <<[header |-> "H", path |-> "v"]>>,
                        dataPath |-> "rows"]>>]

TripData(kind, value) ==
    IF kind = "paragraph" THEN Obj(<<"v">>, <<Str(value)>>)
    ELSE Obj(<<"rows">>, <<Arr(<<Obj(<<"v">>, <<Str(value)>>)>>)>>)

TripOthers ==
    <<normVars, pathVars, schemaVars, renderVars, genVars, displayVars, convVars, docxVars, pdfVars,
      screenVars>>

InitTrip ==
    /\ IdleNorm /\ IdlePath /\ IdleSchema /\ IdleRender /\ IdleGen /\ IdleDisplay /\ IdleConv
    /\ IdleDocx /\ IdlePdf /\ IdleScreen
    /\ tValue \in TripValues
    /\ tKind \in {"paragraph", "cell"}
    /\ tHtml = ""
    /\ tNodes = <<>>
    /\ tPc = "start"

\* the renderer writes the HTML of the block
RenderHtml ==
    /\ tPc = "start"
    /\ tHtml' = renderBlocksFromTemplateConfig(NoHeap, TripConfig(tKind), TripData(tKind, tValue)).html
    /\ tPc' = "rendered"
    /\ UNCHANGED <<tValue, tKind, tNodes, TripOthers>>

\* the converter reads the HTML
ConvertHtml ==
    /\ tPc = "rendered"
    /\ tNodes' = htmlToDocxChildren(tHtml)
    /\ tPc' = "converted"
    /\ UNCHANGED <<tValue, tKind, tHtml, TripOthers>>

NextTrip == RenderHtml \/ ConvertHtml

SpecTrip == InitTrip /\ [][NextTrip]_vars

\* ------------------------------------------------------------------ generate runs

\* A config as stored under metadata.templateConfig.
StoredConfig ==
    [title |-> "", blocks |-> <<[type |-> "heading", text |-> "Invoice", level |-> 1],
                                [type |-> "paragraph", bind |-> [path |-> "name"]]>>]

\* {type: 'object', required: ['name'], properties: {name, qty}}
StoredSchema ==
    [type |-> "object", title |-> "", hasItems |-> FALSE, items |-> <<>>, hasProps |-> TRUE,
     props |-> <<Field("name", Prop("string", "Name")), Field("qty", Prop("integer", ""))>>,
     required |-> <<"name">>]

\* Templates with a JSON schema and with a stored TemplateConfig, with
\* only one of the two, and with neither.
Templates ==
    { [name |-> "Invoice", type |-> "invoice", json_schema |-> StoredSchema,
       metadata |-> [templateConfig |-> StoredConfig]],
      [name |-> "Invoice", type |-> "invoice", json_schema |-> StoredSchema,
       metadata |-> [description |-> "schema only"]],
      [name |-> "", type |-> "letter", json_schema |-> StoredSchema],
      [name |-> "Letter", type |-> "letter", metadata |-> [templateConfig |-> StoredConfig]],
      [name |-> "Letter", type |-> "letter"] }

\* Form data that pass validation, that miss a required field and that
\* hold a text where the schema wants a number.
FormInputs ==
    { Obj(<<"name", "qty">>, <<Str("Ann & Co"), Str("2")>>),
      Obj(<<"name", "qty">>, <<Str(""), Num(1)>>),
      Obj(<<"name", "qty">>, <<Str("Ann"), Str("two")>>) }

FileTypes == {"pdf", "docx"}

EmitterError == ErrorOf("Failed to generate document")
FileReadError == ErrorOf("Failed to read file")
ShareError == ErrorOf("Sharing failed")
UploadError == ErrorOf("Upload failed")
DbError == ErrorOf("Insert failed")

\* `${user.id}/${fileBaseName}.${fileType}`: the time stamp in the base
\* name tells the calls apart
StoragePath(c) == [user |-> "u1", stamp |-> c, ext |-> gIn[c].fileType]

InitGen ==
    IdleNorm /\ IdlePath /\ IdleSchema /\ IdleRender /\ IdleGen /\ IdleDisplay /\ IdleConv /\ IdleDocx /\ IdlePdf /\ IdleScreen /\ IdleTrip

\* catch (err) { setError(err) } finally { setLoading(false) }
Caught(c, e) ==
    /\ gPc' = [gPc EXCEPT ![c] = "done"]
    /\ gErr' = [gErr EXCEPT ![c] = e]
    /\ error' = e
    /\ loading' = FALSE

\* the call moves on to its next await
Proceed(c, pc) ==
    /\ gPc' = [gPc EXCEPT ![c] = pc]
    /\ UNCHANGED <<gErr, error, loading>>

\* generate(template, formData, fileType) up to await getCurrentUser()
Start(c) ==
    /\ gPc[c] = "idle"
    /\ \E template \in Templates, formData \in FormInputs, fileType \in FileTypes :
          gIn' = [gIn EXCEPT ![c] = [template |-> template, formData |-> formData,
                                     fileType |-> fileType]]
    /\ gPc' = [gPc EXCEPT ![c] = "auth"]
    /\ loading' = TRUE
    /\ error' = NoError
    /\ UNCHANGED <<gHtml, gErr, gBase64, bucket, dbRows, shared>>
    /\ UNCHANGED <<normVars, pathVars, schemaVars, renderVars, displayVars, convVars, docxVars, pdfVars, screenVars, tripVars>>

\* getCurrentUser() resolves; normalization, validation, buildDocumentHTML
\* and the file name follow without an await
Auth(c) ==
    /\ gPc[c] = "auth"
    /\ \E user \in BOOLEAN, r \in {prepareDocument(NoHeap, gIn[c].template, gIn[c].formData)} :
          IF ~user THEN Caught(c, NotAuthenticated) /\ UNCHANGED gHtml
          ELSE IF r.err THEN Caught(c, r.error) /\ UNCHANGED gHtml
          ELSE Proceed(c, "emit") /\ gHtml' = [gHtml EXCEPT ![c] = r.html]
    /\ UNCHANGED <<gIn, gBase64, bucket, dbRows, shared>>
    /\ UNCHANGED <<normVars, pathVars, schemaVars, renderVars, displayVars, convVars, docxVars, pdfVars, screenVars, tripVars>>

\* createPdf / createDocx settles, with or without base64 data
Emit(c) ==
    /\ gPc[c] = "emit"
    /\ \E outcome \in {"base64", "uri", "reject"} :
          CASE outcome = "reject" -> Caught(c, EmitterError) /\ UNCHANGED gBase64
            [] outcome = "base64" ->
                  Proceed(c, "shareCheck") /\ gBase64' = [gBase64 EXCEPT ![c] = TRUE]
            [] outcome = "uri" -> Proceed(c, "read") /\ UNCHANGED gBase64
    /\ UNCHANGED <<gIn, gHtml, bucket, dbRows, shared>>
    /\ UNCHANGED <<normVars, pathVars, schemaVars, renderVars, displayVars, convVars, docxVars, pdfVars, screenVars, tripVars>>

\* FileSystem.readAsStringAsync(fileUri) settles
ReadFile(c) ==
    /\ gPc[c] = "read"
    /\ \E ok \in BOOLEAN :
          IF ok THEN Proceed(c, "shareCheck") /\ gBase64' = [gBase64 EXCEPT ![c] = TRUE]
          ELSE Caught(c, FileReadError) /\ UNCHANGED gBase64
    /\ UNCHANGED <<gIn, gHtml, bucket, dbRows, shared>>
    /\ UNCHANGED <<normVars, pathVars, schemaVars, renderVars, displayVars, convVars, docxVars, pdfVars, screenVars, tripVars>>

\* Sharing.isAvailableAsync() resolves
ShareCheck(c) ==
    /\ gPc[c] = "shareCheck"
    /\ \E available \in BOOLEAN : Proceed(c, IF available THEN "share" ELSE "upload")
    /\ UNCHANGED <<gIn, gHtml, gBase64, bucket, dbRows, shared>>
    /\ UNCHANGED <<normVars, pathVars, schemaVars, renderVars, displayVars, convVars, docxVars, pdfVars, screenVars, tripVars>>

\* Sharing.shareAsync(fileUri) settles
Share(c) ==
    /\ gPc[c] = "share"
    /\ \E ok \in BOOLEAN :
          IF ok THEN Proceed(c, "upload") /\ shared' = shared \cup {c}
          ELSE Caught(c, ShareError) /\ UNCHANGED shared
    /\ UNCHANGED <<gIn, gHtml, gBase64, bucket, dbRows>>
    /\ UNCHANGED <<normVars, pathVars, schemaVars, renderVars, displayVars, convVars, docxVars, pdfVars, screenVars, tripVars>>

\* supabase.storage.from('documents').upload(...) resolves
Upload(c) ==
    /\ gPc[c] = "upload"
    /\ \E uploadError \in BOOLEAN :
          IF uploadError THEN Caught(c, UploadError) /\ UNCHANGED bucket
          ELSE Proceed(c, "insert") /\ bucket' = bucket \cup {StoragePath(c)}
    /\ UNCHANGED <<gIn, gHtml, gBase64, dbRows, shared>>
    /\ UNCHANGED <<normVars, pathVars, schemaVars, renderVars, displayVars, convVars, docxVars, pdfVars, screenVars, tripVars>>

\* supabase.from('documents').insert(...) resolves
Insert(c) ==
    /\ gPc[c] = "insert"
    /\ \E dbError \in BOOLEAN :
          IF dbError THEN Proceed(c, "cleanup") /\ UNCHANGED dbRows
          ELSE /\ dbRows' = dbRows \cup {StoragePath(c)}
               /\ gPc' = [gPc EXCEPT ![c] = "done"]
               /\ loading' = FALSE
               /\ UNCHANGED <<gErr, error>>
    /\ UNCHANGED <<gIn, gHtml, gBase64, bucket, shared>>
    /\ UNCHANGED <<normVars, pathVars, schemaVars, renderVars, displayVars, convVars, docxVars, pdfVars, screenVars, tripVars>>

\* supabase.storage.from('documents').remove([storagePath]) resolves, the
\* file removed or not; then throw dbError
Cleanup(c) ==
    /\ gPc[c] = "cleanup"
    /\ \E removed \in BOOLEAN :
          bucket' = IF removed THEN bucket \ {StoragePath(c)} ELSE bucket
    /\ Caught(c, DbError)
    /\ UNCHANGED <<gIn, gHtml, gBase64, dbRows, shared>>
    /\ UNCHANGED <<normVars, pathVars, schemaVars, renderVars, displayVars, convVars, docxVars, pdfVars, screenVars, tripVars>>

NextGen ==
    \E c \in CallIds :
        \/ Start(c)
        \/ Auth(c)
        \/ Emit(c)
        \/ ReadFile(c)
        \/ ShareCheck(c)
        \/ Share(c)
        \/ Upload(c)
        \/ Insert(c)
        \/ Cleanup(c)

SpecGen == InitGen /\ [][NextGen]_vars

\* ------------------------------------------------------------------ form screen runs

ScreenOthers ==
    <<normVars, pathVars, schemaVars, renderVars, genVars, displayVars, convVars, docxVars, pdfVars,
      tripVars>>

\* Alert.alert(title, ...) shown by the handler run c
Alert(c, title) == [run |-> c, title |-> title]

\* the form calls onSubmit: the handler of the latest render runs, whose
\* generationError is the hook's error state as that render saw it; it
\* returns at once without a user or a template id
Submit(c) ==
    /\ hPc[c] = "idle"
    /\ gPc[c] = "idle"
    /\ hCaptured' = [hCaptured EXCEPT ![c] = error]
    /\ \E ready \in BOOLEAN :
          IF ready THEN hPc' = [hPc EXCEPT ![c] = "template"] /\ UNCHANGED alerts
          ELSE /\ hPc' = [hPc EXCEPT ![c] = "returned"]
               /\ alerts' = alerts \cup {Alert(c, "Error")}
    /\ UNCHANGED ScreenOthers

\* await getTemplate(templateId) resolves, with the template or without
FetchTemplate(c) ==
    /\ hPc[c] = "template"
    /\ \E found \in BOOLEAN :
          IF found THEN hPc' = [hPc EXCEPT ![c] = "generate"] /\ UNCHANGED alerts
          ELSE /\ hPc' = [hPc EXCEPT ![c] = "returned"]
               /\ alerts' = alerts \cup {Alert(c, "Error")}
    /\ UNCHANGED <<hCaptured, ScreenOthers>>

\* the handler calls generate(fullTemplate, formData, selectedFileType)
CallGenerate(c) == hPc[c] = "generate" /\ Start(c)

\* await generate(...) has resolved: the Success alert is shown when the
\* generationError the handler closed over is null
AfterGenerate(c) ==
    /\ hPc[c] = "generate"
    /\ gPc[c] = "done"
    /\ hPc' = [hPc EXCEPT ![c] = "returned"]
    /\ alerts' = IF hCaptured[c] = NoError THEN alerts \cup {Alert(c, "Success")} ELSE alerts
    /\ UNCHANGED <<hCaptured, ScreenOthers>>

NextScreen ==
    \E c \in CallIds :
        \/ Submit(c)
        \/ FetchTemplate(c)
        \/ CallGenerate(c)
        \/ Auth(c)
        \/ Emit(c)
        \/ ReadFile(c)
        \/ ShareCheck(c)
        \/ Share(c)
        \/ Upload(c)
        \/ Insert(c)
        \/ Cleanup(c)
        \/ AfterGenerate(c)

SpecScreen == InitGen /\ [][NextScreen]_vars

\* ------------------------------------------------------------------ normalizer claims

\* A JSON-like value: JSON.stringify accepts it (plain containers and
\* primitives, no reference cycle).  An object reachable through two
\* properties is JSON-like.
IsJsonLike(h, x) == ~JsonStringify(h, x).err

\* C1: normalization is idempotent: for every JSON-like value x,
\* normalizeDataForRendering(normalizeDataForRendering(x)) deep-equals
\* normalizeDataForRendering(x).
C1_NormalizeIdempotent ==
    (nPc = "twice" /\ IsJsonLike(nHeap, nInput))
        => DeepEqual(nHeap, nOut.val, nPrev.val)

\* C2: round trip: for every JSON object or array obj, normalizing
\* JSON.stringify(obj) yields the same value as normalizing obj itself.
C2_NormalizeRoundTrip ==
    nPc = "viaJson" => DeepEqual(nHeap, nOut.val, nPrev.val)

\* C3: normalizeDataForRendering raises no exception on any input, reference
\* cycles through object properties or array elements included.
C3_NormalizeNeverThrows ==
    nPc = "once" => ~nOut.err

\* ------------------------------------------------------------------ path resolver claims

\* x has the property key: an own key of an object, an index or the length
\* of an array or a string
HasProp(x, key) ==
    CASE x.t = "obj" -> IndexOfKey(x.k, key) # 0
      [] x.t = "arr" -> key = "length" \/ IsIndexBelow(key, Len(x.e))
      [] x.t = "str" -> key = "length" \/ IsIndexBelow(key, Len(x.s))
      [] OTHER -> FALSE

RECURSIVE ValueAlong(_, _, _)
\* What the claim says resolution returns: undefined as soon as the value
\* reached is null/undefined (falsy, with stopAtFalsy) or lacks the next
\* segment, else the value at the end of the segments.
ValueAlong(x, segs, stopAtFalsy) ==
    IF Len(segs) = 0 THEN x
    ELSE IF IsNullish(x) \/ (stopAtFalsy /\ ~Truthy(NoHeap, x)) THEN Undef
    ELSE IF ~HasProp(x, Head(segs)) THEN Undef
    ELSE ValueAlong(GetProp(NoHeap, x, Head(segs)), Tail(segs), stopAtFalsy)

\* C4 as stated: for every data object and every dot-separated path
\* getValueAtPath returns, without throwing, undefined as soon as an
\* intermediate is null/undefined or a key is absent, and the nested value
\* when every segment exists.
C4_PathResolution ==
    pPc \in {"renderer", "hook"}
        => pOut = ValueAlong(pData, Split(pPath, "."), FALSE)

\* C4 amended: the renderer's getValueAtPath returns '' for the empty path
\* and resolves every other path as stated; the hook's getValueAtPath
\* resolves every path as stated except that it also stops at a falsy
\* intermediate (0, '', false).  Neither throws.
C4_PathResolutionAmended ==
    /\ pPc = "renderer" =>
          pOut = IF pPath = "" THEN Str("")
                 ELSE ValueAlong(pData, Split(pPath, "."), FALSE)
    /\ pPc = "hook" => pOut = ValueAlong(pData, Split(pPath, "."), TRUE)

\* A path whose first segment resolves to null and that goes on: undefined.
C4_Witness ==
    /\ pPc = "renderer"
    /\ pPath = "n.a"
    /\ GetProp(NoHeap, pData, "n") = Null
    /\ pOut = Undef

\* ------------------------------------------------------------------ schema compiler claims

\* The schema of the example: primitive `name` titled Name, then `items`, an
\* array of objects with the properties sku and qty.
ExampleSchema ==
    ObjectOf("", << Field("name", Prop("string", "Name")),
                    Field("items", ArrayOf("", ObjectOf("", <<Field("sku", Prop("string", "")),
                                                             Field("qty", Prop("number", ""))>>))) >>)

\* The field emits a block of its own (a table, a list or a heading).
EmitsBlock(prop) ==
    prop.type = "array" \/ (prop.type = "object" /\ prop.hasProps)

\* Index of the keyValueList block holding a row bound to path, 0 if none.
IndexOfRow(blocks, path) ==
    LET holds(b) == b.type = "keyValueList"
                    /\ \E r \in 1..Len(b.rows) : b.rows[r].bind.path = path
    IN  IF \E i \in 1..Len(blocks) : holds(blocks[i])
        THEN CHOOSE i \in 1..Len(blocks) : holds(blocks[i])
        ELSE 0

\* Index of the block a block-emitting top-level field yields, 0 if none.
IndexOfField(blocks, field) ==
    LET is(b) == \/ b.type \in {"table", "list"} /\ b.dataPath = field.key
                 \/ b.type = "heading" /\ b.text = labelOf(field.key, field.prop)
    IN  IF \E i \in 1..Len(blocks) : is(blocks[i])
        THEN CHOOSE i \in 1..Len(blocks) : is(blocks[i])
        ELSE 0

\* C5: blocks come in declaration order: the row of a primitive field is in
\* a keyValueList block placed before the block of every non-primitive
\* field declared after it; the example schema compiles to a keyValueList
\* (Name -> name) followed by a table (Sku, Qty) bound to items.
C5_DeclarationOrder ==
    sPc = "compiled" =>
        /\ \A i, j \in 1..Len(sSchema.props) :
              (i < j /\ isPrimitive(sSchema.props[i].prop.type)
                     /\ EmitsBlock(sSchema.props[j].prop))
                 => /\ IndexOfRow(sOut.blocks, sSchema.props[i].key) # 0
                    /\ IndexOfRow(sOut.blocks, sSchema.props[i].key)
                          < IndexOfField(sOut.blocks, sSchema.props[j])
        /\ sSchema = ExampleSchema =>
              sOut.blocks =
                 << KeyValueList(<<[label |-> "Name", bind |-> [path |-> "name"]]>>),
                    [type |-> "table",
                     columns |-> <<[header |-> "Sku", path |-> "sku"],
                                   [header |-> "Qty", path |-> "qty"]>>,
                     dataPath |-> "items"] >>

\* parent.child, as the claim words it
DotJoin(prefix, key) == IF prefix = "" THEN key ELSE prefix \o "." \o key

RECURSIVE BlockCount(_)
RECURSIVE BlockCountUpTo(_, _)
\* Blocks the first n properties of schema s yield before the trailing list.
BlockCountUpTo(s, n) ==
    IF n = 0 THEN 0
    ELSE BlockCountUpTo(s, n - 1)
         + (LET p == s.props[n].prop
            IN  IF p.type = "array" THEN 1
                ELSE IF p.type = "object" /\ p.hasProps THEN 1 + BlockCount(p)
                ELSE 0)

\* Blocks schema s yields.
BlockCount(s) ==
    BlockCountUpTo(s, Len(s.props))
    + (IF \E i \in 1..Len(s.props) : isPrimitive(s.props[i].prop.type) THEN 1 ELSE 0)

RECURSIVE SchemaPaths(_, _)
\* The dotted paths of the fields of s that are bound to data.
SchemaPaths(s, prefix) ==
    UNION { LET f == s.props[i]
                p == DotJoin(prefix, f.key)
            IN  IF isPrimitive(f.prop.type) \/ f.prop.type = "array" THEN {p}
                ELSE IF f.prop.type = "object" /\ f.prop.hasProps THEN SchemaPaths(f.prop, p)
                ELSE {}
            : i \in 1..Len(s.props) }

\* The bind paths and dataPaths of a block sequence.
BlockPaths(blocks) ==
    UNION { LET b == blocks[i]
            IN  IF b.type = "keyValueList" THEN {b.rows[r].bind.path : r \in 1..Len(b.rows)}
                ELSE IF b.type \in {"table", "list"} THEN {b.dataPath}
                ELSE {}
            : i \in 1..Len(blocks) }

RECURSIVE NestedPlaced(_, _, _)
\* Every object field with properties of s has, in blocks, its heading
\* immediately followed by the blocks of its nested schema, all bound under
\* the field's path; the same holds inside those blocks.
NestedPlaced(blocks, s, prefix) ==
    \A j \in 1..Len(s.props) :
        LET f == s.props[j]
            at == BlockCountUpTo(s, j - 1) + 1
            n == BlockCount(f.prop)
            p == DotJoin(prefix, f.key)
            sub == SubSeq(blocks, at + 1, at + n)
        IN  (f.prop.type = "object" /\ f.prop.hasProps) =>
                /\ at + n <= Len(blocks)
                /\ blocks[at] = [type |-> "heading", text |-> labelOf(f.key, f.prop), level |-> 3]
                /\ BlockPaths(sub) = SchemaPaths(f.prop, p)
                /\ \A q \in BlockPaths(sub) : StartsWithAt(q, p \o ".", 1)
                /\ NestedPlaced(sub, f.prop, p)

\* C7: an object field with nested properties compiles to a heading with
\* the field's title (or title-cased key) immediately followed by the
\* blocks of the nested schema, whose bind paths and dataPaths are the
\* parent path, a dot and the child key, at every depth.
C7_NestedObjects ==
    sPc = "compiled" => NestedPlaced(sOut.blocks, sSchema, "")

\* The address field (two levels of nesting) has been compiled: the heading
\* Geo is followed by a list bound to address.geo.marks.
C7_Witness ==
    /\ sPc = "compiled"
    /\ \E i \in 1..(Len(sOut.blocks) - 1) :
          /\ sOut.blocks[i] = [type |-> "heading", text |-> "Geo", level |-> 3]
          /\ sOut.blocks[i + 1] = [type |-> "list", dataPath |-> "address.geo.marks"]

\* C8: a schema with no `properties` member compiles, without error, to a
\* TemplateConfig with an empty block list.
C8_NoProperties ==
    (sPc = "compiled" /\ ~sSchema.hasProps) => sOut.blocks = <<>>

\* The schema without `properties` has been compiled.
C8_Witness ==
    sPc = "compiled" /\ ~sSchema.hasProps /\ Len(sOut.blocks) = 0

\* ------------------------------------------------------------------ generate claims

\* the call c was made with a template that carries a JSON schema and no
\* metadata.templateConfig
SchemaOnly(c) ==
    /\ gIn[c] # NoCall
    /\ Has(gIn[c].template, "json_schema")
    /\ ~HasTemplateConfig(gIn[c].template)

\* the document the schema compiler's config would render for call c
DerivedHtml(c) ==
    buildWith(NoHeap, schemaToTemplateConfig(gIn[c].template.json_schema), gIn[c].template,
              normalizeDataForRendering(NoHeap, gIn[c].formData).val).html

\* the error an authenticated call c with a template without config ends with
ExpectedError(c) ==
    LET errors == validateAgainstSchema(NoHeap, gIn[c].template,
                      normalizeDataForRendering(NoHeap, gIn[c].formData).val)
    IN  IF Len(errors) > 0 THEN ErrorOf("Validation failed: " \o Join(errors, "; "))
        ELSE MissingTemplateConfig

\* C9 as stated: a generate call whose template carries a JSON schema but
\* no TemplateConfig does not fail for the missing config; once past the
\* rendering step it holds the document rendered from the config the
\* schema compiler derives.
C9_DerivesConfigFromSchema ==
    \A c \in CallIds :
        SchemaOnly(c) =>
            /\ gErr[c] # MissingTemplateConfig
            /\ (gPc[c] \notin {"auth", "done"} => gHtml[c] = DerivedHtml(c))

\* C9 amended: a generate call whose template carries a JSON schema but no
\* metadata.templateConfig never gets past the rendering step: it ends
\* with an error (not authenticated, validation failed, or, for valid
\* data, 'Template is missing metadata.templateConfig'), no HTML is handed
\* to an emitter, nothing is shared, uploaded or inserted.
C9_SchemaOnlyFails ==
    \A c \in CallIds :
        SchemaOnly(c) =>
            /\ gPc[c] \in {"auth", "done"}
            /\ gHtml[c] = ""
            /\ c \notin shared
            /\ StoragePath(c) \notin bucket \cup dbRows
            /\ (gPc[c] = "done" => gErr[c] \in {NotAuthenticated, ExpectedError(c)})

\* A call with valid data and a schema-only template has finished with the
\* missing-config error in the hook's error state.
C9_Witness ==
    \E c \in CallIds :
        /\ SchemaOnly(c)
        /\ gPc[c] = "done"
        /\ gErr[c] = MissingTemplateConfig
        /\ error = MissingTemplateConfig
        /\ ~loading

\* ------------------------------------------------------------------ renderer claims

\* the entity escapeHtml writes for a character starts at i
EntityAt(s, i) ==
    \E e \in {"&amp;", "&lt;", "&gt;", "&quot;", "&#39;"} : StartsWithAt(s, e, i)

\* first letters of the tags the renderer writes
TagInitials == {"h", "p", "d", "u", "o", "l", "t"}

\* a tag of the renderer opens at i
TagOpensAt(s, i) ==
    \/ (i + 1 <= Len(s) /\ Ch(s, i + 1) \in TagInitials)
    \/ (i + 2 <= Len(s) /\ Ch(s, i + 1) = "/" /\ Ch(s, i + 2) \in TagInitials)

\* Where a scan of the output is: in text, inside a tag, or inside a
\* quoted attribute value; "bad" once a character is out of place.
ScanModes == {"text", "tag", "quoted"}

\* The mode after the character at i, read in mode m: in text, < must open
\* one of the renderer's tags, & must start one of the five entities and
\* > " ' must not occur; inside a tag, " opens an attribute value and >
\* closes the tag; inside an attribute value only " (closing it) may occur
\* of the five.
ScanStep(s, i, m) ==
    LET c == Ch(s, i)
    IN  IF m = "text" THEN
            CASE c = "<" -> IF TagOpensAt(s, i) THEN "tag" ELSE "bad"
              [] c = "&" -> IF EntityAt(s, i) THEN "text" ELSE "bad"
              [] c \in {">", "\"", "'"} -> "bad"
              [] OTHER -> "text"
        ELSE IF m = "tag" THEN
            CASE c = ">" -> "text"
              [] c = "\"" -> "quoted"
              [] c \in {"<", "&", "'"} -> "bad"
              [] OTHER -> "tag"
        ELSE
            CASE c = "\"" -> "tag"
              [] c \in {"<", ">", "&", "'"} -> "bad"
              [] OTHER -> "quoted"

RECURSIVE Scan(_, _, _)
\* the mode after s[lo..hi] for each mode before it (halving keeps the
\* recursion shallow on long outputs)
Scan(s, lo, hi) ==
    IF lo = hi THEN [m \in ScanModes |-> ScanStep(s, lo, m)]
    ELSE LET mid == (lo + hi) \div 2
             left == Scan(s, lo, mid)
             right == Scan(s, mid + 1, hi)
         IN  [m \in ScanModes |-> IF left[m] = "bad" THEN "bad" ELSE right[left[m]]]

\* The characters & < > " ' occur in s only as the renderer's own markup
\* and entities.
OnlyMarkup(s) == s = "" \/ Scan(s, 1, Len(s))["text"] = "text"

\* C10: in the output of renderBlocksFromTemplateConfig the characters
\* & < > " ' of a data value never appear unescaped, whatever the block
\* type and whether the value is reached through a bind path, a path, a
\* dataPath / sourcePath or a {{path}} placeholder: every such character
\* in the output belongs to the renderer's markup or to an entity.
C10_DataEscaped ==
    (rPc = "rendered" /\ ~rOut.err) => OnlyMarkup(rOut.html)

\* A bound paragraph has been rendered for the value <& and shows both
\* characters as entities.
C10_Witness ==
    /\ rPc = "rendered"
    /\ rConfig = [blocks |-> <<BoundParagraph>>]
    /\ GetProp(NoHeap, rData, "v") = Str("<&")
    /\ rOut.html = "<p>&lt;&amp;</p>"

\* the blocks of the rendered config
ConfigBlocks == IF Has(rConfig, "blocks") THEN rConfig.blocks ELSE <<>>

\* the styles of the rendered config
ConfigStyles == IF Has(rConfig, "styles") THEN rConfig.styles ELSE [none |-> <<>>]

\* the data as the renderer sees them, after normalization
NormalizedData == normalizeDataForRendering(NoHeap, rData).val

\* the config is one block and has no styles
SingleBlock(b) == rConfig = [blocks |-> <<b>>]

\* b is a paragraph without text and without style, bound to a path
IsBoundParagraph(b) ==
    /\ b.type = "paragraph"
    /\ DOMAIN b = {"type", "bind"}
    /\ Has(b.bind, "path") /\ b.bind.path # ""

\* C11: a paragraph block without literal text, bound to a path that does
\* not exist in the data, with no paragraph style configured, renders as
\* exactly <p></p> and no exception is raised.
C11_MissingPathParagraph ==
    \A b \in RenderBlocks :
        ( /\ rPc = "rendered"
          /\ SingleBlock(b)
          /\ IsBoundParagraph(b)
          /\ ValueAlong(NormalizedData, Split(b.bind.path, "."), FALSE) = Undef )
        => rOut = [err |-> FALSE, html |-> "<p></p>"]

\* A paragraph bound to v.k has been rendered for data whose v is a text,
\* which has no k.
C11_Witness ==
    /\ rPc = "rendered"
    /\ SingleBlock([type |-> "paragraph", bind |-> [path |-> "v.k"]])
    /\ GetProp(NoHeap, rData, "v") = Str("<&")
    /\ rOut.html = "<p></p>"

\* the ten block types the renderer has a case for
KnownTypes ==
    {"heading", "paragraph", "line", "list", "table", "keyValueTable", "keyValueList",
     "divider", "spacer", "signature"}

IsKnownBlock(b) == b.type \in KnownTypes

\* the blocks of the rendered config that have a known type, in order
KnownBlocks == SelectSeq(ConfigBlocks, IsKnownBlock)

\* C17: blocks of an unknown type are skipped without error: the output
\* equals the output for the same config with those blocks removed, and
\* it is the renderings of the known blocks, in their order, joined by
\* newlines.
C17_UnknownBlocksSkipped ==
    rPc = "rendered" =>
        /\ ~rOut.err
        /\ rOut = renderBlocksFromTemplateConfig(NoHeap,
                      [blocks |-> KnownBlocks, styles |-> ConfigStyles], rData)
        /\ rOut.html = Join([i \in 1..Len(KnownBlocks) |->
                                renderBlock(NoHeap, ConfigStyles, KnownBlocks[i], NormalizedData)[1]],
                            "\n")

\* A config with unknown blocks before, between and after known ones has
\* been rendered: a divider and a paragraph come out, in that order.
C17_Witness ==
    /\ rPc = "rendered"
    /\ Len(ConfigBlocks) = 5 /\ Len(KnownBlocks) = 2
    /\ GetProp(NoHeap, rData, "v") = Str("x")
    /\ rOut.html = "<hr/>\n<p>x</p>"

\* C19 as stated: a paragraph whose text is {{v}} renders the same HTML as
\* a paragraph without text bound to v, for every string value of v (the
\* value escaped exactly once).
C19_ParagraphEscapedOnce ==
    ( /\ rPc = "rendered"
      /\ SingleBlock([type |-> "paragraph", text |-> "{{v}}"])
      /\ GetProp(NoHeap, NormalizedData, "v").t = "str" )
    => rOut = renderBlocksFromTemplateConfig(NoHeap, [blocks |-> <<BoundParagraph>>], rData)

\* b.dataPath || b.sourcePath as the claim reads it: the path of the rows,
\* "" when neither is set
RowsPath(b) ==
    IF Has(b, "dataPath") /\ b.dataPath # "" THEN b.dataPath
    ELSE IF Has(b, "sourcePath") /\ b.sourcePath # "" THEN b.sourcePath
    ELSE ""

\* the rows a table block shows: the elements of the array at its rows
\* path, none when the value there is not an array, the data object alone
\* when the block has no rows path
ExpectedRows(b) ==
    LET at == ValueAlong(NormalizedData, Split(RowsPath(b), "."), FALSE)
    IN  IF RowsPath(b) = "" THEN <<NormalizedData>>
        ELSE IF at.t = "arr" THEN at.e
        ELSE <<>>

\* the style attribute of the body cells of a table block
CellStyleAttr(b) ==
    IF Has(b, "cellStyle") THEN StyleAttr(cssToString(b.cellStyle))
    ELSE IF Has(ConfigStyles, "td") THEN StyleAttr(cssToString(ConfigStyles.td))
    ELSE ""

\* one body row: a <td> per declared column holding the escaped display
\* of the column's path resolved against the row
ExpectedRow(b, row) ==
    "<tr>"
    \o Join([c \in 1..Len(b.columns) |->
                "<td" \o CellStyleAttr(b) \o ">"
                \o escapeHtmlString(valueToDisplay(NoHeap,
                        ValueAlong(row, Split(b.columns[c].path, "."), FALSE)))
                \o "</td>"], "")
    \o "</tr>"

\* the first position from i on where pat occurs in s, 0 when there is none
IndexOfText(s, pat, i) == FirstTextIn(s, pat, i, Len(s) - Len(pat) + 1)

\* the text between <tbody> and </tbody>
TableBody(html) ==
    LET a == IndexOfText(html, "<tbody>", 1)
        z == IndexOfText(html, "</tbody>", 1)
    IN  IF a = 0 \/ z = 0 THEN "?" ELSE SubSeq(html, a + 7, z - 1)

RECURSIVE CountTextIn(_, _, _, _)
\* occurrences of pat in s that start in lo..hi
CountTextIn(s, pat, lo, hi) ==
    IF lo > hi THEN 0
    ELSE IF lo = hi THEN (IF StartsWithAt(s, pat, lo) THEN 1 ELSE 0)
    ELSE LET mid == (lo + hi) \div 2
         IN  CountTextIn(s, pat, lo, mid) + CountTextIn(s, pat, mid + 1, hi)

\* occurrences of pat in s from i on
CountText(s, pat, i) == CountTextIn(s, pat, i, Len(s) - Len(pat) + 1)

\* C20: a table block renders one body row per element of the array at
\* dataPath / sourcePath (one row, the whole data object, when neither is
\* set; none when the value there is not an array), and every body row
\* holds one <td> per declared column, with the escaped display of the
\* column's path resolved against that row.
C20_TableRows ==
    \A b \in RenderBlocks :
        ( /\ rPc = "rendered"
          /\ b.type = "table"
          /\ ConfigBlocks = <<b>> )
        => /\ ~rOut.err
           /\ TableBody(rOut.html) =
                 Join([r \in 1..Len(ExpectedRows(b)) |-> ExpectedRow(b, ExpectedRows(b)[r])], "")
           /\ CountText(TableBody(rOut.html), "<tr>", 1) = Len(ExpectedRows(b))
           /\ CountText(TableBody(rOut.html), "<td", 1) = Len(ExpectedRows(b)) * Len(b.columns)

\* A table with a dataPath has been rendered for an array of one row
\* object: one body row with the escaped value of its column.
C20_Witness ==
    /\ rPc = "rendered"
    /\ SingleBlock([type |-> "table", columns |-> <<[header |-> "<V>", path |-> "v"]>>,
                    dataPath |-> "v"])
    /\ GetProp(NoHeap, rData, "v") = Arr(<<Obj(<<"v">>, <<Str("<")>>)>>)
    /\ TableBody(rOut.html) = "<tr><td>&lt;</td></tr>"

\* ------------------------------------------------------------------ display claims

IsPrimitive(x) == x.t \in {"str", "num", "bool", "null", "undef"}

\* the text of one array element: String(x) for a primitive, its own
\* compact JSON for an object or an array
ElementText(x) ==
    IF IsPrimitive(x) THEN JsString(NoHeap, x) ELSE JsonStringify(NoHeap, x).s

\* display of null and undefined, of arrays of primitives and of plain
\* objects, the parts of C18 on which the statement and the code agree
DisplayCommon ==
    /\ dValue \in {Null, Undef} => dOut = ""
    /\ (dValue.t = "arr" /\ \A i \in 1..Len(dValue.e) : IsPrimitive(dValue.e[i]))
         => dOut = Join([i \in 1..Len(dValue.e) |-> JsString(NoHeap, dValue.e[i])], ", ")
    /\ dValue.t = "obj" => dOut = JsonStringify(NoHeap, dValue).s

\* the array shown has an element, and all its elements are plain objects
IsArrayOfObjects(v) ==
    v.t = "arr" /\ Len(v.e) > 0 /\ \A i \in 1..Len(v.e) : v.e[i].t = "obj"

\* C18 as stated: display gives "" for null and undefined, joins an array
\* of primitives with ", ", and gives the compact JSON string of a plain
\* object and of an array of objects.
C18_DisplayAsStated ==
    dPc = "shown" =>
        /\ DisplayCommon
        /\ IsArrayOfObjects(dValue) => dOut = JsonStringify(NoHeap, dValue).s

\* C18, amended: display gives "" for null and undefined and the compact
\* JSON string of a plain object; for an array it joins with ", " the
\* texts of the elements, where a primitive element gives its string form
\* and an object element its own compact JSON string, so that an array
\* of objects gives the elements' JSON strings separated by ", " and not
\* the JSON string of the array.
C18_DisplayPerElement ==
    dPc = "shown" =>
        /\ DisplayCommon
        /\ dValue.t = "arr"
             => dOut = Join([i \in 1..Len(dValue.e) |-> ElementText(dValue.e[i])], ", ")
        /\ (IsArrayOfObjects(dValue) /\ Len(dValue.e) > 1)
             => dOut # JsonStringify(NoHeap, dValue).s

\* An array of two objects has been shown: the two JSON strings with ", "
\* between them, without brackets.
C18_Witness ==
    /\ dPc = "shown"
    /\ dValue = Arr(<<Obj(<<"a">>, <<Num(1)>>), Obj(<<"b", "c">>, <<Str("x"), Null>>)>>)
    /\ dOut = "{\"a\":1}, {\"b\":\"x\",\"c\":null}"

\* ------------------------------------------------------------------ converter claims

\* C12: the conversion loop terminates for every finite input, whatever
\* unterminated, unmatched or unknown tags it holds: every run reaches
\* the return of htmlToDocxChildren.
C12_ConverterTerminates == <>(cPc = "done")

\* The converter has returned for an input with an unterminated paragraph
\* and an unterminated table, after consuming it piece by piece.
C12_Witness ==
    /\ cPc = "done"
    /\ cHtml = "<p>unterminated <table><tr><td>1"
    /\ cRemaining = ""
    /\ cIter > 2

\* the HTML of every document with one table
TableDocTexts == [d \in TableDocs |-> TableDocHtml(d)]

\* the table nodes among the children
TableNodes == SelectSeq(cChildren, LAMBDA n : n.node = "table")

\* C13: for HTML holding exactly one well-formed table of R rows with C
\* cells each (td or th), the converter's output holds exactly one table
\* node, and that node has R rows of C cells.
C13_OneTable ==
    (cPc = "done" /\ Includes(Lower(cHtml), "</tr>")) =>
        \A d \in TableDocs :
            cHtml = TableDocTexts[d] =>
                /\ Len(TableNodes) = 1
                /\ Len(TableNodes[1].rows) = d.rows
                /\ \A r \in 1..d.rows : Len(TableNodes[1].rows[r]) = d.cols

\* A table of two rows and two columns, with a header row in a thead, a
\* paragraph before it and a heading after it, has been converted.
C13_Witness ==
    /\ cPc = "done"
    /\ cHtml = TableDocTexts[[pre |-> "<p>Hello</p>", rows |-> 2, cols |-> 2,
                             style |-> "sections", post |-> "<h2>E</h2>"]]
    /\ Len(TableNodes) = 1
    /\ TableNodes[1].rows = << <<TableCell("H1", TRUE), TableCell("H2", TRUE)>>,
                               <<TableCell("1", FALSE), TableCell("2", FALSE)>> >>

\* C14: text that precedes an extracted element is stripped of its tags,
\* split on blank lines into paragraphs, and these paragraphs come
\* immediately before the element's node; <p>Hello</p> followed by a table
\* of one cell 1 gives exactly a paragraph Hello and that table.
C14_PrecedingText ==
    cPc = "done" =>
        /\ \A c \in PrecedingCases, e \in ExtractedElements :
              cHtml = c.pre \o e.html =>
                  cChildren = [i \in 1..Len(c.paras) |-> Paragraph(c.paras[i])] \o e.nodes
        /\ cHtml = "<p>Hello</p><table><tr><td>1</td></tr></table>" =>
              cChildren = <<Paragraph("Hello"), Table(<<<<TableCell("1", FALSE)>>>>)>>

\* The example document has been converted: a paragraph Hello, then the
\* table.
C14_Witness ==
    /\ cPc = "done"
    /\ cHtml = "<p>Hello</p><table><tr><td>1</td></tr></table>"
    /\ cChildren = <<Paragraph("Hello"), Table(<<<<TableCell("1", FALSE)>>>>)>>

\* ------------------------------------------------------------------ createDocx claims

\* the packager has been handed a document
HandedToPackager == xPc \in {"pack", "write", "packPlain", "writePlain"}

\* C15: DOCX generation always hands the packager a non-empty node list;
\* when the conversion throws or yields no nodes the list is a single
\* paragraph holding the tag-stripped text of the input without its style
\* blocks; and a failed conversion is never the error the caller receives.
C15_NodeList ==
    /\ HandedToPackager => Len(xNodes) > 0
    /\ \A c \in DocxCases :
          ( /\ HandedToPackager
            /\ xHtml = c.html
            /\ xConv = "threw" \/ htmlToDocxChildren(xSanitized) = <<>> )
          => xNodes = <<Paragraph(c.plain)>>
    /\ xOut.status = "rejected" => xOut.error # DocxConversionError
    /\ (xConv = "threw" /\ xOut.status = "rejected") => xOut.error \in {DocxPackError, DocxWriteError}

\* The conversion threw for an input with a style block, and the plain
\* text document, one paragraph Hi, was written and returned.
C15_Witness ==
    /\ xPc = "returned"
    /\ xConv = "threw"
    /\ xHtml = "<style>p{color:red}</style><p>Hi</p>"
    /\ xNodes = <<Paragraph("Hi")>>
    /\ xOut = [status |-> "returned", fileUri |-> "file:///document/report.docx"]

\* ------------------------------------------------------------------ createPdf claims

C16_WitnessRename ==
    /\ pdfMove = "failed"
    /\ pdfOut.status = "returned"
    /\ pdfOut.fileUri = PdfPrintedUri

\* ------------------------------------------------------------------ converter order claims

\* C21: in every pass through the conversion loop the candidates are tried
\* in the order table, heading (h1 first), list (ul first), image, plain
\* text: the first kind with a complete element anywhere in the remaining
\* input is the one extracted, even when an element of a later kind starts
\* earlier, and what precedes the extracted element is pushed as
\* tag-stripped plain paragraphs.
C21_Precedence ==
    \A c \in PrecedenceCases :
        (cHtml = c.html /\ cIter = 1) =>
            /\ cBranch = c.branch
            /\ cChildren = c.children
            /\ cRemaining = c.remaining

\* The first pass over a heading followed by a table has taken the table
\* and pushed the heading's text as a plain paragraph before it.
C21_Witness ==
    /\ cHtml = "<h1>A</h1><table><tr><td>B</td></tr></table>C"
    /\ cIter = 1
    /\ cBranch = "table"
    /\ cChildren = <<Paragraph("A"), Table(<<<<TableCell("B", FALSE)>>>>)>>
    /\ cRemaining = "C"

\* documents with well-formed headings outside tables, and the heading
\* nodes these call for
HeadingDocs ==
    {[html |-> "<h2>T</h2>", headings |-> {HeadingParagraph(2, "T")}],
     [html |-> "<h2>T</h2><ul><li>a</li><li><b>b</b></li></ul><ol><li>c</li></ol>tail",
      headings |-> {HeadingParagraph(2, "T")}],
     [html |-> "<h1>A</h1><table><tr><td>B</td></tr></table>C",
      headings |-> {HeadingParagraph(1, "A")}],
     [html |-> "<h2>A</h2><h1>B</h1>",
      headings |-> {HeadingParagraph(2, "A"), HeadingParagraph(1, "B")}],
     [html |-> "<h6>A</h6><h5>B</h5><h6>C</h6>",
      headings |-> {HeadingParagraph(6, "A"), HeadingParagraph(5, "B"), HeadingParagraph(6, "C")}],
     [html |-> "<ul><li>A</li></ul><h2>B</h2>C", headings |-> {HeadingParagraph(2, "B")}]}

\* C22: every well-formed heading <hN>...</hN> of the input that is not
\* inside a table yields a heading node of level N with its tag-stripped
\* inner text, whatever other elements occur after it in the input.
C22_HeadingsKept ==
    cPc = "done" =>
        \A d \in HeadingDocs :
            cHtml = d.html =>
                \A h \in d.headings : \E i \in 1..Len(cChildren) : cChildren[i] = h

\* ------------------------------------------------------------------ style block claims

\* the inputs whose style blocks, and nothing else, hold the letter Z
StyleDocs == {c.html : c \in {d \in DocxCases : Includes(d.html, "Z")}}

\* the texts a node carries
NodeTexts(n) ==
    IF n.node = "table"
    THEN UNION {{n.rows[r][c].text : c \in DOMAIN n.rows[r]} : r \in DOMAIN n.rows}
    ELSE IF n.node = "image" THEN {}
    ELSE {n.text}

\* C23: no text located inside a <style>...</style> block of the input
\* appears in any node of the generated DOCX, on the normal conversion
\* path and on the plain text path alike.
C23_NoStyleText ==
    (HandedToPackager /\ xHtml \in StyleDocs) =>
        \A i \in 1..Len(xNodes) : \A t \in NodeTexts(xNodes[i]) : ~Includes(t, "Z")

\* A document with a style block between a paragraph and a heading was
\* converted, and the paragraph and the heading were handed to the
\* packager.
C23_Witness ==
    /\ xPc = "pack"
    /\ xConv = "ok"
    /\ xHtml = "<p>a</p><STYLE type=\"t\">\nZ > p {}\n</STYLE><h1>T</h1>"
    /\ xNodes = <<Paragraph("a"), HeadingParagraph(1, "T")>>

\* ------------------------------------------------------------------ workflow claims

\* the calls that have been started
Started == {c \in CallIds : gPc[c] # "idle"}

\* the file of call c is in the bucket and has no row in the table
Orphan(c) == StoragePath(c) \in bucket /\ StoragePath(c) \notin dbRows

\* C24: once a generate call has finished, with or without error, the
\* bucket never holds a file uploaded by that call that has no matching
\* row in the documents table; when the insert fails the uploaded file is
\* removed before the error is reported.
C24_NoPartialPersistence ==
    \A c \in Started : gPc[c] = "done" => ~Orphan(c)

\* the form data that pass the stored schema
ValidFormInput == Obj(<<"name", "qty">>, <<Str("Ann & Co"), Str("2")>>)

\* the data of call c pass validation and its template can be rendered
Renderable(c) ==
    /\ Has(gIn[c].template, "json_schema") => gIn[c].formData = ValidFormInput
    /\ Has(gIn[c].template, "metadata")
    /\ Has(gIn[c].template.metadata, "templateConfig")

\* an error thrown for a non-empty list of validation errors
IsValidationError(e) == e # NoError /\ StartsWithAt(e[1], "Validation failed: ", 1)

\* what has happened for call c never lacks an earlier step, and a step
\* that failed is the last one
StepsInOrder(c) ==
    /\ gHtml[c] # "" => Renderable(c)
    /\ gBase64[c] => gHtml[c] # ""
    /\ c \in shared => gBase64[c]
    /\ StoragePath(c) \in bucket => gBase64[c]
    /\ StoragePath(c) \in dbRows => StoragePath(c) \in bucket
    /\ gErr[c] # NoError => gPc[c] = "done"
    /\ (gErr[c] = NotAuthenticated \/ IsValidationError(gErr[c]) \/ gErr[c] = MissingTemplateConfig)
          => gHtml[c] = "" /\ ~gBase64[c]
    /\ (Has(gIn[c].template, "json_schema") /\ gIn[c].formData # ValidFormInput /\ gPc[c] = "done")
          => gErr[c] = NotAuthenticated \/ IsValidationError(gErr[c])
    /\ gErr[c] \in {EmitterError, FileReadError} => ~gBase64[c]
    /\ ~gBase64[c] => c \notin shared /\ StoragePath(c) \notin bucket
    /\ gErr[c] \in {ShareError, UploadError} => StoragePath(c) \notin bucket
    /\ gErr[c] = ShareError => c \notin shared

\* an error is recorded the moment a call fails, and the call ends there
ErrorRecorded ==
    \A c \in CallIds :
        gErr'[c] # gErr[c] =>
            /\ gPc[c] \notin {"idle", "done"}
            /\ gPc'[c] = "done"
            /\ error' = gErr'[c]
            /\ error' # NoError

\* C25: the generate workflow is fail-stop and ordered: authentication,
\* validation, rendering, emission, sharing, upload and insert happen in
\* that order; a step that fails prevents every later step, puts its error
\* in the hook's error state and ends the call, which resolves.
C25_FailStopOrdered ==
    /\ [](\A c \in Started : StepsInOrder(c))
    /\ [][ErrorRecorded]_vars

\* A call whose upload failed has ended with the upload error in the
\* hook's error state, after its document was shared, with nothing in the
\* bucket and no row.
C25_Witness ==
    \E c \in CallIds :
        /\ gPc[c] = "done"
        /\ gErr[c] = UploadError
        /\ error = UploadError
        /\ c \in shared
        /\ StoragePath(c) \notin bucket \cup dbRows

\* a generate call is in progress
InProgress(c) == gPc[c] \notin {"idle", "done"}

\* C26: the hook's loading flag is true whenever at least one generate
\* call is in progress and false once every started call has finished,
\* for every interleaving of generate calls.
C26_LoadingWhileInProgress ==
    loading <=> \E c \in CallIds : InProgress(c)

\* ------------------------------------------------------------------ form screen claims

\* C27: handleFormSubmit shows the Success alert if and only if the
\* generate call it awaited finished without error: none after a failed
\* generation, and one after a successful generation even when an earlier
\* attempt on the same screen had failed.
C27_SuccessIffNoError ==
    \A c \in CallIds :
        (hPc[c] = "returned" /\ gPc[c] = "done") =>
            (Alert(c, "Success") \in alerts <=> gErr[c] = NoError)

\* ------------------------------------------------------------------ converter progress claims

\* what the last pass took from the front of the remaining input
Consumed == SubSeq(cRemaining, 1, Len(cRemaining) - Len(cRemaining'))

\* a pass through the loop that is not stopped by the cap leaves a proper
\* suffix of the remaining input, and what it took is all that remained or
\* ends with the end of a tag
PassShortens ==
    (cIter' = cIter + 1 /\ cBranch' # "break") =>
        /\ Len(cRemaining') < Len(cRemaining)
        /\ cRemaining' = From(cRemaining, Len(Consumed) + 1)
        /\ \/ cRemaining' = ""
           \/ /\ Includes(Consumed, "<")
              /\ Ch(Consumed, Len(Consumed)) = ">"

\* the passes made and the input left never exceed the input, the branch
\* that drops one character is never taken, and the cap stops the loop
\* only after MAX_ITERATIONS passes with input left over
ProgressBounds ==
    /\ cIter <= Len(cHtml)
    /\ cBranch # "break" => cIter + Len(cRemaining) <= Len(cHtml)
    /\ cBranch # "char"
    /\ cBranch = "break" => cIter = MAX_ITERATIONS + 1 /\ cRemaining # ""
    /\ (cPc = "done" /\ cBranch # "break") => cRemaining = "" /\ cIter <= MAX_ITERATIONS

\* C28: every pass through the conversion loop strictly shortens the
\* remaining input, taking at least one whole tag or all that remains, so
\* the passes number at most the length of the input; the last-resort
\* branch that drops one character is never taken; and the output is cut
\* short by the cap of 10000 only for inputs that need more than 10000
\* passes.
C28_Progress ==
    /\ []ProgressBounds
    /\ [][PassShortens]_vars

\* An input that needs exactly MAX_ITERATIONS passes has been converted to
\* the end, one empty paragraph for each of its line breaks.
C28_Witness ==
    /\ cPc = "done"
    /\ cIter = MAX_ITERATIONS
    /\ cBranch = "tag"
    /\ cRemaining = ""
    /\ Len(cChildren) = MAX_ITERATIONS

\* An input that needs one pass more than MAX_ITERATIONS has been cut
\* short: its last line break is left unread.
C28_WitnessCut ==
    /\ cPc = "done"
    /\ cBranch = "break"
    /\ cRemaining = "<br>"
    /\ Len(cChildren) = MAX_ITERATIONS

\* ------------------------------------------------------------------ converter order of text claims

\* the letters that stand for texts of the input
Letters == {"A", "B", "C", "D", "E", "F", "G"}

RECURSIVE LettersIn(_, _, _)
\* the letters of s[lo..hi], in order
LettersIn(s, lo, hi) ==
    IF lo > hi THEN ""
    ELSE IF lo = hi THEN (IF Ch(s, lo) \in Letters THEN Ch(s, lo) ELSE "")
    ELSE Only({ LettersIn(s, lo, mid) \o LettersIn(s, mid + 1, hi) : mid \in {(lo + hi) \div 2} })

LettersOf(s) == Only({ LettersIn(v, 1, Len(v)) : v \in {s} })

\* the text a node carries, the cells of a table row by row
NodeText(n) ==
    IF n.node = "table"
    THEN Join([r \in DOMAIN n.rows |->
                  Join([c \in DOMAIN n.rows[r] |-> n.rows[r][c].text], "")], "")
    ELSE IF n.node = "image" THEN ""
    ELSE n.text

RECURSIVE TextOfNodes(_, _, _)
\* the letters carried by the nodes lo..hi, in the order of the nodes
TextOfNodes(nodes, lo, hi) ==
    IF lo > hi THEN ""
    ELSE IF lo = hi THEN LettersOf(NodeText(nodes[lo]))
    ELSE Only({ TextOfNodes(nodes, lo, mid) \o TextOfNodes(nodes, mid + 1, hi) :
                mid \in {(lo + hi) \div 2} })

RECURSIVE IsSubsequence(_, _, _, _)
\* a[i..] can be read in b[j..] from left to right
IsSubsequence(a, i, b, j) ==
    IF i > Len(a) THEN TRUE
    ELSE IF j > Len(b) THEN FALSE
    ELSE IF Ch(a, i) = Ch(b, j) THEN IsSubsequence(a, i + 1, b, j + 1)
    ELSE IsSubsequence(a, i, b, j + 1)

\* C29: the converter preserves document order: after every pass the texts
\* carried by the nodes pushed so far, followed by the texts of the
\* remaining input, are in the order they have in the original HTML, so a
\* node for text A precedes a node for text B whenever A precedes B in the
\* input, whichever kinds of element were extracted.
C29_OrderPreserved ==
    /\ \E done \in {TextOfNodes(cChildren, 1, Len(cChildren))} :
          /\ IsSubsequence(done \o LettersOf(cRemaining), 1, LettersOf(cHtml), 1)
          /\ \A d \in OrderDocs : (cHtml = d.html /\ cPc = "done") => done = d.letters

\* A document with text, a heading, a list and a table has been converted:
\* the table was taken first, and the nodes carry the letters in the order
\* of the input.
C29_Witness ==
    /\ cPc = "done"
    /\ cHtml = "A<h2>B</h2>C<ul><li>D</li></ul>E<table><tr><td>F</td></tr></table>G"
    /\ cChildren = <<Paragraph("AB\nCD\nE"), Table(<<<<TableCell("F", FALSE)>>>>), Paragraph("G")>>

\* ------------------------------------------------------------------ render then convert claims

\* the node n carries the text of the block bound to v: a paragraph with
\* that text, or a table with a body cell of that text
Carries(n, kind, text) ==
    IF kind = "paragraph" THEN n = Paragraph(text)
    ELSE /\ n.node = "table"
         /\ \E r \in DOMAIN n.rows : \E c \in DOMAIN n.rows[r] : n.rows[r][c] = TableCell(text, FALSE)

\* C30: rendering then converting preserves user text: for every
\* single-line string value v, the characters < > & " ' included, a
\* paragraph or a table cell bound to v that is rendered to HTML and then
\* converted yields a node whose text equals v.
C30_TextPreserved ==
    tPc = "converted" => \E i \in 1..Len(tNodes) : Carries(tNodes[i], tKind, tValue)

====
